---------------------------- MODULE Spec2Model ----------------------------
(***************************************************************************)
(* A model of the UNO rules engine and turn-state machine of App.tsx,      *)
(* services/gameLogic (createDeck, isValidMove, calculateHandScore) and    *)
(* services/geminiService (getAiMove).                                     *)
(*                                                                         *)
(* One App component instance is modelled.  Its React state is the         *)
(* variables below.  A callback sees the values of the render that created *)
(* it: click handlers are those of the latest render and so read the       *)
(* current state; the computer's turn (the async runAiTurn of the effect   *)
(* at App.tsx:740-785) and the peer listeners (registered once, from       *)
(* initializePeer / connectToPeer) keep the values of the render in which  *)
(* they were created.  Those captured values are explicit: "closure"       *)
(* records.                                                                *)
(*                                                                         *)
(* Cards are the ids k of "card-k" (createDeck numbers them 0..107 in a    *)
(* fixed order, so a card's colour, type and value are a function of its   *)
(* id).  The games of the model are played with the first DeckSize cards   *)
(* of Selection and hands of HandSize cards.                               *)
(***************************************************************************)
EXTENDS Integers, Sequences, FiniteSets, TLC

\* ------------------------------------------------------------------ bounds
\* Cards in the deck of a modelled game (108 in the program).
DeckSize == 5
\* Cards dealt to each player (7 in the program).
HandSize == 2
\* Round setups in one behaviour without a peer.
MaxRounds == 2
\* Round setups in one behaviour once a peer has been created.
MaxNetRounds == 1
\* Slider positions of the target score that the model tries (100 + 50*k).
MaxTargetStep == 0
\* Peer connections in one behaviour.
MaxConnections == 1
\* Colours offered for a wild card that the model tries (the first of COLORS).
ColorsTried == 2
\* Messages one behaviour hands to the connection.
MaxSent == 1
\* Deals of the remote authority whose state-snapshots the model tries.
SnapshotDeals == 2
\* Rule steps of the remote authority after a deal.
SnapshotDepth == 3
\* Players seated in the games the turn rules are checked on.
MaxPlayers == 3
\* Deals of those games: the cards of Selection turned by 0..RuleDeals-1.
RuleDeals == 10

\* ------------------------------------------------------------ card values
COLORS == <<"RED", "BLUE", "GREEN", "YELLOW">>
BLACK == "BLACK"

\* The number cards of a colour run from 0 to MaxNumber.
MaxNumber == 9
\* Skips, reverses and draw-twos per colour; wilds and wild-draw-fours.
ActionCopies == 2
WildCopies == 4
\* Points of an action card and of a wild card.
ActionPoints == 20
WildPoints == 50
\* Cards a DRAW_TWO / WILD_DRAW_FOUR gives the victim.
DrawTwoCount == 2
DrawFourCount == 4
\* useState(500): the target score before the slider is touched.
DefaultTargetScore == 500
\* The slider: min 100, step 50.
MinTargetScore == 100
TargetStep == 50

NoCard == -1
NoColor == "none"
NoName == "none"

\* ---------------------------------------------------------- createDeck
\* addCard: the card record without its id (the id is the position).
addCard(color, type, value) == [color |-> color, type |-> type, value |-> value]

RECURSIVE NumberCardsZeroTwin(_, _)
\* A variant of NumberCards whose second card of each value is a 0.
NumberCardsZeroTwin(color, i) ==
    IF i > MaxNumber THEN <<>>
    ELSE <<addCard(color, "NUMBER", i), addCard(color, "NUMBER", 0)>>
         \o NumberCardsZeroTwin(color, i + 1)

RECURSIVE NumberCards(_, _)
\* for (i = 1; i <= 9; i++) two cards of value i
NumberCards(color, i) ==
    IF i > MaxNumber THEN <<>>
    ELSE <<addCard(color, "NUMBER", i), addCard(color, "NUMBER", i)>>
         \o NumberCards(color, i + 1)

RECURSIVE ActionCards(_, _)
\* for (i = 0; i < 2; i++) skip, reverse, draw-two
ActionCards(color, i) ==
    IF i >= ActionCopies THEN <<>>
    ELSE <<addCard(color, "SKIP", -1), addCard(color, "REVERSE", -1),
           addCard(color, "DRAW_TWO", -1)>> \o ActionCards(color, i + 1)

RECURSIVE ColorCards(_)
\* COLORS.forEach: one 0, two each of 1..9, the action cards
ColorCards(c) ==
    IF c > Len(COLORS) THEN <<>>
    ELSE <<addCard(COLORS[c], "NUMBER", 0)>> \o NumberCards(COLORS[c], 1)
         \o ActionCards(COLORS[c], 0) \o ColorCards(c + 1)

RECURSIVE WildCards(_)
\* for (i = 0; i < 4; i++) wild, wild-draw-four
WildCards(i) ==
    IF i >= WildCopies THEN <<>>
    ELSE <<addCard(BLACK, "WILD", -1), addCard(BLACK, "WILD_DRAW_FOUR", -1)>>
         \o WildCards(i + 1)

\* The deck createDeck builds before it shuffles; card-k is OrderedDeck[k+1].
OrderedDeck == ColorCards(1) \o WildCards(0)

CardColor(id) == OrderedDeck[id + 1].color
CardType(id) == OrderedDeck[id + 1].type
CardValue(id) == OrderedDeck[id + 1].value

\* Ids of the cards the modelled games are played with, in the order they
\* join the deck as DeckSize grows: RED 1, BLUE 1, RED SKIP, WILD,
\* WILD_DRAW_FOUR, BLUE 2, BLUE DRAW_TWO, RED REVERSE, RED 2, BLUE SKIP.
Selection == <<1, 26, 19, 100, 101, 28, 46, 20, 3, 44>>

Pack == [i \in 1..DeckSize |-> Selection[i]]

RECURSIVE Perms(_)
\* All orders of the elements of sequence s without repetition of positions.
Perms(s) ==
    IF Len(s) = 0 THEN {<<>>}
    ELSE UNION {{<<s[i]>> \o p :
                   p \in Perms([j \in 1..(Len(s) - 1) |->
                                   IF j < i THEN s[j] ELSE s[j + 1]])} :
                i \in 1..Len(s)}

\* shuffleDeck: Fisher-Yates with Math.random can return any order.
shuffleDeck(deck) == Perms(deck)

\* createDeck: the ordered deck (here: the pack), shuffled.
createDeck == shuffleDeck(Pack)


\* ------------------------------------------------------------ gameLogic
\* A variant of isValidMove that lets any number card follow a number card.
isValidMoveAnyNumber(card, topCard, currentColor) ==
    \/ CardColor(card) = BLACK
    \/ CardColor(card) = currentColor
    \/ CardType(card) = CardType(topCard)

\* isValidMove(card, topCard, currentColor)
isValidMove(card, topCard, currentColor) ==
    IF CardColor(card) = BLACK THEN TRUE
    ELSE IF CardColor(card) = currentColor THEN TRUE
    ELSE IF CardType(card) = CardType(topCard)
         THEN IF CardType(card) = "NUMBER"
              THEN CardValue(card) = CardValue(topCard)
              ELSE TRUE
    ELSE FALSE

\* canPlayAny(hand, topCard, currentColor)
canPlayAny(hand, topCard, currentColor) ==
    \E i \in 1..Len(hand) : isValidMove(hand[i], topCard, currentColor)

\* A variant of CardPoints that counts a wild card as an action card.
CardPointsFlat(card) ==
    IF CardType(card) = "NUMBER" THEN CardValue(card) ELSE ActionPoints

\* The points of one card in calculateHandScore's reducer.
CardPoints(card) ==
    IF CardType(card) = "NUMBER" THEN CardValue(card)
    ELSE IF CardType(card) \in {"SKIP", "REVERSE", "DRAW_TWO"} THEN ActionPoints
    ELSE IF CardType(card) \in {"WILD", "WILD_DRAW_FOUR"} THEN WildPoints
    ELSE 0

RECURSIVE calculateHandScore(_)
\* hand.reduce((total, card) => total + points, 0)
calculateHandScore(hand) ==
    IF Len(hand) = 0 THEN 0
    ELSE calculateHandScore(SubSeq(hand, 1, Len(hand) - 1))
         + CardPoints(hand[Len(hand)])

\* ------------------------------------------------------- array helpers
\* hand.findIndex(c => c.id === id): 0-based, -1 when absent.
FindIndex(hand, id) ==
    IF \E i \in 1..Len(hand) : hand[i] = id
    THEN (CHOOSE i \in 1..Len(hand) :
             hand[i] = id /\ \A j \in 1..(i - 1) : hand[j] # id) - 1
    ELSE -1

\* hand.splice(index, 1), index 0-based: an index past the end removes
\* nothing, a negative index counts from the end.
Splice1(hand, index) ==
    LET at == IF index < 0
              THEN (IF Len(hand) + index < 0 THEN 0 ELSE Len(hand) + index)
              ELSE index
    IN  IF at >= Len(hand) THEN hand
        ELSE [j \in 1..(Len(hand) - 1) |->
                 IF j <= at THEN hand[j] ELSE hand[j + 1]]

\* The last element of a non-empty array.
Last(seq) == seq[Len(seq)]

\* The player at a 0-based index.
PlayerAt(state, index) == state.players[index + 1]

\* A variant of nextTurn that does not wrap the index around the table.
nextTurnNoWrap(current) ==
    [current EXCEPT !.currentPlayerIndex = @ + current.direction]

\* ------------------------------------------------------------ nextTurn
\* A variant of nextTurn that clamps an index below 0 to 0.
nextTurnClamped(current) ==
    LET n0 == current.currentPlayerIndex + current.direction
        n1 == IF n0 >= Len(current.players) THEN 0 ELSE n0
        n2 == IF n1 < 0 THEN 0 ELSE n1
    IN  [current EXCEPT !.currentPlayerIndex = n2]

nextTurn(current) ==
    LET n0 == current.currentPlayerIndex + current.direction
        n1 == IF n0 >= Len(current.players) THEN 0 ELSE n0
        n2 == IF n1 < 0 THEN Len(current.players) - 1 ELSE n1
    IN  [current EXCEPT !.currentPlayerIndex = n2]

\* ----------------------------------------------------------- drawCards
\* A variant of drawCards that leaves the recycled cards on the discard
\* pile as well.
drawCardsKeepDiscard(playerIndex, count, state) ==
    LET refill == Len(state.deck) < count /\ Len(state.discardPile) > 1
        orders == IF refill
                  THEN Perms(SubSeq(state.discardPile, 1,
                                    Len(state.discardPile) - 1))
                  ELSE {<<>>}
    IN  { LET deck == state.deck \o recycled
              cardsToDraw == IF count < Len(deck) THEN count ELSE Len(deck)
          IN  [state EXCEPT
                 !.deck = SubSeq(deck, cardsToDraw + 1, Len(deck)),
                 !.players[playerIndex + 1].hand = @ \o SubSeq(deck, 1, cardsToDraw)]
          : recycled \in orders }

\* The states drawCards(playerIndex, count, state) can return: one for
\* each order the random comparator can leave the recycled cards in.
drawCards(playerIndex, count, state) ==
    LET refill == Len(state.deck) < count /\ Len(state.discardPile) > 1
        top == Last(state.discardPile)
        orders == IF refill
                  THEN Perms(SubSeq(state.discardPile, 1,
                                    Len(state.discardPile) - 1))
                  ELSE {<<>>}
    IN  { LET deck == state.deck \o recycled
              discardPile == IF refill THEN <<top>> ELSE state.discardPile
              cardsToDraw == IF count < Len(deck) THEN count ELSE Len(deck)
              drawn == SubSeq(deck, 1, cardsToDraw)
          IN  [state EXCEPT
                 !.deck = SubSeq(deck, cardsToDraw + 1, Len(deck)),
                 !.discardPile = discardPile,
                 !.players[playerIndex + 1].hand = @ \o drawn]
          : recycled \in orders }

\* ---------------------------------------------------- handleCardEffect
\* A variant of VictimIndex: the player who played draws.
VictimIndexSelf(state) == state.currentPlayerIndex

\* The index of the player next in turn order (the victim of a draw card).
VictimIndex(state) ==
    LET v0 == state.currentPlayerIndex + state.direction
        v1 == IF v0 >= Len(state.players) THEN 0 ELSE v0
    IN  IF v1 < 0 THEN Len(state.players) - 1 ELSE v1

\* A variant of handleCardEffect that leaves the colour in force alone.
handleCardEffectKeepColor(card, state) ==
    CASE CardType(card) = "SKIP" -> {nextTurn(state)}
      [] CardType(card) = "REVERSE" ->
           IF Len(state.players) = 2
           THEN {nextTurn(state)}
           ELSE {[state EXCEPT !.direction = -1 * @]}
      [] CardType(card) = "DRAW_TWO" ->
           {nextTurn(s) : s \in drawCards(VictimIndex(state), DrawTwoCount, state)}
      [] CardType(card) = "WILD_DRAW_FOUR" ->
           {nextTurn(s) : s \in drawCards(VictimIndex(state), DrawFourCount, state)}
      [] OTHER -> {state}

\* A variant of handleCardEffect in which a skip has no effect.
handleCardEffectNoSkip(card, state) ==
    LET colored == IF CardColor(card) # BLACK
                   THEN [state EXCEPT !.currentColor = CardColor(card)]
                   ELSE state
    IN  CASE CardType(card) = "REVERSE" ->
               IF Len(colored.players) = 2
               THEN {nextTurn(colored)}
               ELSE {[colored EXCEPT !.direction = -1 * @]}
          [] CardType(card) = "DRAW_TWO" ->
               {nextTurn(s) : s \in drawCards(VictimIndex(colored), DrawTwoCount, colored)}
          [] CardType(card) = "WILD_DRAW_FOUR" ->
               {nextTurn(s) : s \in drawCards(VictimIndex(colored), DrawFourCount, colored)}
          [] OTHER -> {colored}

\* A variant of handleCardEffect in which a reverse flips the direction
\* whatever the number of players.
handleCardEffectFlipOnly(card, state) ==
    LET colored == IF CardColor(card) # BLACK
                   THEN [state EXCEPT !.currentColor = CardColor(card)]
                   ELSE state
    IN  CASE CardType(card) = "SKIP" -> {nextTurn(colored)}
          [] CardType(card) = "REVERSE" ->
               {[colored EXCEPT !.direction = -1 * @]}
          [] CardType(card) = "DRAW_TWO" ->
               {nextTurn(s) : s \in drawCards(VictimIndex(colored), DrawTwoCount, colored)}
          [] CardType(card) = "WILD_DRAW_FOUR" ->
               {nextTurn(s) : s \in drawCards(VictimIndex(colored), DrawFourCount, colored)}
          [] OTHER -> {colored}

\* The states handleCardEffect(card, state) can return.
handleCardEffect(card, state) ==
    LET colored == IF CardColor(card) # BLACK
                   THEN [state EXCEPT !.currentColor = CardColor(card)]
                   ELSE state
    IN  CASE CardType(card) = "SKIP" -> {nextTurn(colored)}
          [] CardType(card) = "REVERSE" ->
               IF Len(colored.players) = 2
               THEN {nextTurn(colored)}
               ELSE {[colored EXCEPT !.direction = -1 * @]}
          [] CardType(card) = "DRAW_TWO" ->
               {nextTurn(s) : s \in drawCards(VictimIndex(colored), DrawTwoCount, colored)}
          [] CardType(card) = "WILD_DRAW_FOUR" ->
               {nextTurn(s) : s \in drawCards(VictimIndex(colored), DrawFourCount, colored)}
          [] OTHER -> {colored}


\* ================================================================ state
VARIABLES
    gameState,              \* useState<GameState>, App.tsx:153
    gameMode,               \* 'AI' | 'ONLINE' | 'LOCAL'
    targetScore,            \* the setting, App.tsx:130
    pendingWildCard,        \* the wild card waiting for a colour, or NoCard
    aiTurn,                 \* the suspended runAiTurn and what it closed over
    isHost,
    connectionStatus,
    isMultiplayerMenuOpen,
    peerRef,                \* what initializePeer's callbacks closed over
    connRef,                \* a data connection is held
    listener,               \* what the connection's listeners closed over
    opening,                \* what the pending conn.on('open') closed over
    startTimer,             \* the host's setTimeout(startMultiplayerMatch) is pending
    sent,                   \* messages handed to connRef.current.send
    rounds,                 \* round setups so far
    connections             \* connections so far

vars == <<gameState, gameMode, targetScore, pendingWildCard, aiTurn, isHost,
          connectionStatus, isMultiplayerMenuOpen, peerRef, connRef, listener,
          opening, startTimer, sent, rounds, connections>>

netVars == <<isHost, connectionStatus, isMultiplayerMenuOpen, peerRef, connRef,
             listener, opening, startTimer, connections>>

NoTask == [live |-> FALSE]
NoClosure == [bound |-> FALSE]

\* The colours a colour choice is drawn from.
PickColors == {COLORS[i] : i \in 1..(IF ColorsTried < Len(COLORS)
                                     THEN ColorsTried ELSE Len(COLORS))}

\* The positions of the target-score slider the model tries.
SliderScores == {MinTargetScore + TargetStep * k : k \in 0..MaxTargetStep}

\* useState<GameState>({...}) at App.tsx:153-164
InitialGameState ==
    [deck |-> <<>>, discardPile |-> <<>>, players |-> <<>>,
     currentPlayerIndex |-> 0, direction |-> 1, status |-> "LOBBY",
     winner |-> NoName, currentColor |-> "RED", isAiThinking |-> FALSE,
     roundWinner |-> NoName, pointsWon |-> 0]

\* The values a callback created in the current render closes over.
Closure ==
    [bound |-> TRUE, gameState |-> gameState, gameMode |-> gameMode,
     isHost |-> isHost, connectionStatus |-> connectionStatus,
     targetScore |-> targetScore]

\* sendMultiplayerMessage(msg) in closure cl: the messages it sends.
sendMultiplayerMessage(cl, msg) ==
    IF connRef /\ cl.connectionStatus = "CONNECTED" THEN <<msg>> ELSE <<>>

\* What a handler leaves behind: whether it called setGameState and with
\* what, whether it called setPendingWildCard(null), what it sent.
Update(set, state, clear, msgs) ==
    [set |-> set, gameState |-> state, clearPending |-> clear, msgs |-> msgs]

\* A MultiplayerMessage; the fields a message type lacks are left empty.
Msg(type, cardId, wildColor, payload) ==
    [type |-> type, cardId |-> cardId, wildColor |-> wildColor,
     payload |-> payload]

\* ------------------------------------------------------------ setupRound
\* A variant of FlipStart that takes the first card whatever it is.
FlipStartNone(deck) == deck

RECURSIVE FlipStart(_)
\* while (startCard.type === WILD_DRAW_FOUR) { deck.push(startCard); ... }:
\* the deck turned until its first card is not a wild draw four.
FlipStart(deck) ==
    IF CardType(deck[1]) = "WILD_DRAW_FOUR"
    THEN FlipStart(SubSeq(deck, 2, Len(deck)) \o <<deck[1]>>)
    ELSE deck

\* players.map(p => ({...p, hand: deck.splice(0, 7)})) on the deck left
\* after the start card; each hand is HandSize cards here.
Deal(playersConfig, deck) ==
    [i \in 1..Len(playersConfig) |->
        [playersConfig[i] EXCEPT
           !.hand = SubSeq(deck, (i - 1) * HandSize + 1,
                           IF i * HandSize < Len(deck)
                           THEN i * HandSize ELSE Len(deck))]]

\* A variant of RoundState that takes the colour of the start card as it
\* is.
RoundStateCardColor(shuffled, playersConfig, startPlayerIndex) ==
    LET turned == FlipStart(shuffled)
        startCard == turned[1]
        rest == SubSeq(turned, 2, Len(turned))
        dealt == Len(playersConfig) * HandSize
    IN  [deck |-> SubSeq(rest, dealt + 1, Len(rest)),
         discardPile |-> <<startCard>>,
         players |-> Deal(playersConfig, rest),
         currentPlayerIndex |-> startPlayerIndex,
         direction |-> 1,
         status |-> "PLAYING",
         winner |-> NoName,
         currentColor |-> CardColor(startCard),
         isAiThinking |-> FALSE,
         roundWinner |-> NoName,
         pointsWon |-> 0]

\* The state a round starts in, for one shuffled deck.
RoundState(shuffled, playersConfig, startPlayerIndex) ==
    LET turned == FlipStart(shuffled)
        startCard == turned[1]
        rest == SubSeq(turned, 2, Len(turned))
        dealt == Len(playersConfig) * HandSize
    IN  [deck |-> SubSeq(rest, dealt + 1, Len(rest)),
         discardPile |-> <<startCard>>,
         players |-> Deal(playersConfig, rest),
         currentPlayerIndex |-> startPlayerIndex,
         direction |-> 1,
         status |-> "PLAYING",
         winner |-> NoName,
         currentColor |-> IF CardColor(startCard) = BLACK
                          THEN "RED" ELSE CardColor(startCard),
         isAiThinking |-> FALSE,
         roundWinner |-> NoName,
         pointsWon |-> 0]

\* The states setupRound(playersConfig, startPlayerIndex) can set.
setupRound(playersConfig, startPlayerIndex) ==
    {RoundState(d, playersConfig, startPlayerIndex) : d \in createDeck}

NewPlayer(name, isAi) == [name |-> name, isAi |-> isAi, hand |-> <<>>, score |-> 0]

\* existingPlayers = gameState.players.map(p => ({...p, hand: []}))
ClearHands(players) == [i \in 1..Len(players) |-> [players[i] EXCEPT !.hand = <<>>]]

\* ---------------------------------------------------------- finalizeMove
\* A variant of OpponentPoints that counts the first player's hand only.
OpponentPointsFirst(state, playerIndex) ==
    calculateHandScore(state.players[1].hand)

\* The sum of calculateHandScore over the hands of the players other than
\* playerIndex.
OpponentPoints(state, playerIndex) ==
    LET RECURSIVE Sum(_)
        Sum(i) == IF i > Len(state.players) THEN 0
                  ELSE (IF i - 1 # playerIndex
                        THEN calculateHandScore(state.players[i].hand) ELSE 0)
                       + Sum(i + 1)
    IN  Sum(1)

\* The STATE_UPDATE the host sends after setting newState.
SyncState(cl, newState) ==
    IF cl.gameMode = "ONLINE" /\ cl.isHost
    THEN sendMultiplayerMessage(cl, Msg("STATE_UPDATE", NoCard, NoColor, <<newState>>))
    ELSE <<>>

\* A variant of finalizeMove that applies the effect of the card that
\* empties the hand.
finalizeMoveEffectFirst(cl, card, index, chosenWildColor, currentState) ==
    IF cl.gameMode = "ONLINE" /\ ~cl.isHost
    THEN {Update(FALSE, currentState, FALSE,
                 sendMultiplayerMessage(cl, Msg("PLAYER_MOVE", card, chosenWildColor, <<>>)))}
    ELSE
      LET playerIndex == currentState.currentPlayerIndex
          player == PlayerAt(currentState, playerIndex)
          hand == Splice1(player.hand, index)
          played == [currentState EXCEPT
                       !.discardPile = Append(@, card),
                       !.players[playerIndex + 1].hand = hand,
                       !.currentColor =
                           IF CardColor(card) = BLACK /\ chosenWildColor # NoColor
                           THEN chosenWildColor ELSE @]
          opponentPoints == OpponentPoints(played, playerIndex)
          score == player.score + opponentPoints
          isMatchOver == score >= cl.targetScore
          won == [played EXCEPT
                    !.players[playerIndex + 1].score = score,
                    !.roundWinner = player.name,
                    !.pointsWon = opponentPoints,
                    !.status = IF isMatchOver THEN "GAME_OVER" ELSE "ROUND_OVER",
                    !.winner = IF isMatchOver THEN player.name ELSE @]
      IN  IF Len(hand) = 0
          THEN {Update(TRUE, s, FALSE, SyncState(cl, s)) :
                  s \in handleCardEffect(card, won)}
          ELSE {Update(TRUE, nextTurn(s), TRUE, SyncState(cl, nextTurn(s))) :
                  s \in handleCardEffect(card, played)}

\* A variant of finalizeMove without the branch for an emptied hand.
finalizeMoveNoWin(cl, card, index, chosenWildColor, currentState) ==
    IF cl.gameMode = "ONLINE" /\ ~cl.isHost
    THEN {Update(FALSE, currentState, FALSE,
                 sendMultiplayerMessage(cl, Msg("PLAYER_MOVE", card, chosenWildColor, <<>>)))}
    ELSE
      LET playerIndex == currentState.currentPlayerIndex
          player == PlayerAt(currentState, playerIndex)
          played == [currentState EXCEPT
                       !.discardPile = Append(@, card),
                       !.players[playerIndex + 1].hand = Splice1(player.hand, index),
                       !.currentColor =
                           IF CardColor(card) = BLACK /\ chosenWildColor # NoColor
                           THEN chosenWildColor ELSE @]
      IN  {Update(TRUE, nextTurn(s), TRUE, SyncState(cl, nextTurn(s))) :
             s \in handleCardEffect(card, played)}

\* finalizeMove(card, index, chosenWildColor, stateOverride) called in
\* closure cl, currentState being stateOverride || gameState.
finalizeMove(cl, card, index, chosenWildColor, currentState) ==
    IF cl.gameMode = "ONLINE" /\ ~cl.isHost
    THEN {Update(FALSE, currentState, FALSE,
                 sendMultiplayerMessage(cl, Msg("PLAYER_MOVE", card, chosenWildColor, <<>>)))}
    ELSE
      LET playerIndex == currentState.currentPlayerIndex
          player == PlayerAt(currentState, playerIndex)
          hand == Splice1(player.hand, index)
          played == [currentState EXCEPT
                       !.discardPile = Append(@, card),
                       !.players[playerIndex + 1].hand = hand,
                       !.currentColor =
                           IF CardColor(card) = BLACK /\ chosenWildColor # NoColor
                           THEN chosenWildColor ELSE @]
          opponentPoints == OpponentPoints(played, playerIndex)
          score == player.score + opponentPoints
          isMatchOver == score >= cl.targetScore
          won == [played EXCEPT
                    !.players[playerIndex + 1].score = score,
                    !.roundWinner = player.name,
                    !.pointsWon = opponentPoints,
                    !.status = IF isMatchOver THEN "GAME_OVER" ELSE "ROUND_OVER",
                    !.winner = IF isMatchOver THEN player.name ELSE @]
      IN  IF Len(hand) = 0
          THEN {Update(TRUE, won, FALSE, SyncState(cl, won))}
          ELSE {Update(TRUE, nextTurn(s), TRUE, SyncState(cl, nextTurn(s))) :
                  s \in handleCardEffect(card, played)}

\* -------------------------------------------------------------- getAiMove
Wittiness == {"Friendly", "Sassy", "Ruthless"}

\* A variant of getScore that ranks the cards by their face value, whatever
\* the personality.
getScoreByValue(c, wittiness) == CardValue(c)

\* getScore(c) of the fallback strategy's comparator.
getScore(c, wittiness) ==
    IF wittiness = "Ruthless"
    THEN (IF CardType(c) = "WILD_DRAW_FOUR" THEN 100
          ELSE IF CardType(c) = "DRAW_TWO" THEN 90
          ELSE IF CardType(c) \in {"SKIP", "REVERSE"} THEN 80
          ELSE IF CardType(c) = "WILD" THEN 70
          ELSE 10)
    ELSE IF wittiness = "Friendly"
    THEN (IF CardType(c) = "NUMBER" THEN 100
          ELSE IF CardType(c) = "WILD" THEN 50
          ELSE 10)
    ELSE (IF CardType(c) = "DRAW_TWO" THEN 60
          ELSE IF CardType(c) \in {"SKIP", "REVERSE"} THEN 50
          ELSE IF CardType(c) = "NUMBER" THEN 40
          ELSE IF CardType(c) = "WILD" THEN 30
          ELSE IF CardType(c) = "WILD_DRAW_FOUR" THEN 20
          ELSE 0)

\* hand.filter(c => c.color === color).length
ColorCount(hand, color) == Cardinality({i \in 1..Len(hand) : CardColor(hand[i]) = color})

\* A variant of BestColor that keeps the last colour with the largest count.
BestColorLast(hand) ==
    LET RECURSIVE Reduce(_, _)
        Reduce(best, i) ==
            IF i > Len(COLORS) THEN best
            ELSE Reduce(IF ColorCount(hand, COLORS[i]) >= ColorCount(hand, best)
                        THEN COLORS[i] ELSE best, i + 1)
    IN  Reduce(COLORS[1], 1)

\* COLORS.reduce((best, current) => count(current) > count(best) ? current
\* : best, COLORS[0]): the first colour with the largest count.
BestColor(hand) ==
    LET RECURSIVE Reduce(_, _)
        Reduce(best, i) ==
            IF i > Len(COLORS) THEN best
            ELSE Reduce(IF ColorCount(hand, COLORS[i]) > ColorCount(hand, best)
                        THEN COLORS[i] ELSE best, i + 1)
    IN  Reduce(COLORS[1], 1)

\* An AiMoveResponse; cardIndex is <<>> when the response has none, else
\* <<index>>.
AiMove(action, cardIndex, wildColor) ==
    [action |-> action, cardIndex |-> cardIndex, wildColor |-> wildColor]

\* The fallback strategy of getAiMove (the catch branch): the first of the
\* valid moves with the largest getScore (the sort is stable), else draw.
FallbackMove(state, playerIndex, wittiness) ==
    LET aiHand == PlayerAt(state, playerIndex).hand
        topCard == Last(state.discardPile)
        validMoves == {i \in 1..Len(aiHand) :
                         isValidMove(aiHand[i], topCard, state.currentColor)}
        selected == CHOOSE i \in validMoves :
                       \A j \in validMoves :
                          \/ getScore(aiHand[j], wittiness) < getScore(aiHand[i], wittiness)
                          \/ (getScore(aiHand[j], wittiness) = getScore(aiHand[i], wittiness)
                              /\ i <= j)
    IN  IF validMoves # {}
        THEN AiMove("play", <<selected - 1>>,
                    IF CardColor(aiHand[selected]) = BLACK
                    THEN BestColor(aiHand) ELSE NoColor)
        ELSE AiMove("draw", <<>>, NoColor)

\* What the language service can answer: the schema asks for an action, an
\* integer cardIndex and a wildColor, and the answer is not checked against
\* the hand before it is returned.
ServiceMoves(state, playerIndex) ==
    LET aiHand == PlayerAt(state, playerIndex).hand
    IN  {AiMove("play", <<i>>, c) : i \in (-1)..Len(aiHand), c \in PickColors \cup {NoColor}}
        \cup {AiMove("play", <<>>, NoColor), AiMove("draw", <<>>, NoColor)}

\* The moves getAiMove(state, playerIndex, wittiness) can resolve to.
getAiMove(state, playerIndex) ==
    ServiceMoves(state, playerIndex)
    \cup {FallbackMove(state, playerIndex, w) : w \in Wittiness}

\* ------------------------------------------------------------ handleAiDraw
\* handleAiDraw() called in closure cl.
handleAiDraw(cl) ==
    UNION {
      LET player == PlayerAt(stateWithDraw, cl.gameState.currentPlayerIndex)
          drawnCardIndex == Len(player.hand) - 1
          drawnCard == player.hand[drawnCardIndex + 1]
          topCard == Last(stateWithDraw.discardPile)
      IN  IF isValidMove(drawnCard, topCard, stateWithDraw.currentColor)
          THEN finalizeMove(cl, drawnCard, drawnCardIndex,
                            IF CardColor(drawnCard) = BLACK
                            THEN BestColor(player.hand) ELSE NoColor,
                            stateWithDraw)
          ELSE {Update(TRUE, nextTurn(stateWithDraw), FALSE, <<>>)}
      : stateWithDraw \in drawCards(cl.gameState.currentPlayerIndex, 1, cl.gameState) }

\* The body of runAiTurn after getAiMove resolved to move, in closure cl.
ApplyAiMove(cl, move) ==
    LET aiHand == PlayerAt(cl.gameState, cl.gameState.currentPlayerIndex).hand
    IN  IF move.action = "play" /\ Len(move.cardIndex) = 1
        THEN IF move.cardIndex[1] >= 0 /\ move.cardIndex[1] < Len(aiHand)
             THEN finalizeMove(cl, aiHand[move.cardIndex[1] + 1], move.cardIndex[1],
                               move.wildColor, cl.gameState)
             ELSE handleAiDraw(cl)
        ELSE handleAiDraw(cl)

\* ----------------------------------------------------------------- Init
Init ==
    /\ gameState = InitialGameState
    /\ gameMode = "AI"
    /\ targetScore = DefaultTargetScore
    /\ pendingWildCard = NoCard
    /\ aiTurn = NoTask
    /\ isHost = FALSE
    /\ connectionStatus = "DISCONNECTED"
    /\ isMultiplayerMenuOpen = FALSE
    /\ peerRef = NoClosure
    /\ connRef = FALSE
    /\ listener = NoClosure
    /\ opening = NoClosure
    /\ startTimer = FALSE
    /\ sent = <<>>
    /\ rounds = 0
    /\ connections = 0

\* -------------------------------------------------- the AI turn effect
\* The effect's dependencies differ between the current render and the
\* render of (newState, newMode).
DepsChanged(newState, newMode) ==
    \/ newState.currentPlayerIndex # gameState.currentPlayerIndex
    \/ newState.status # gameState.status
    \/ newMode # gameMode

\* runAiTurn's condition in the render of (newState, newMode).
AiTurnStarts(newState, newMode) ==
    /\ newMode = "AI"
    /\ newState.status = "PLAYING"
    /\ PlayerAt(newState, newState.currentPlayerIndex).isAi
    /\ ~newState.isAiThinking

\* The match state once newState and newMode are committed and the effect
\* at App.tsx:740 has run: a run of runAiTurn that starts sets isAiThinking.
Committed(newState, newMode) ==
    IF DepsChanged(newState, newMode) /\ AiTurnStarts(newState, newMode)
    THEN [newState EXCEPT !.isAiThinking = TRUE]
    ELSE newState

\* A commit of newState and newMode followed by the effect at App.tsx:740:
\* when a dependency changed the previous run is cleaned up (mounted =
\* false) and runAiTurn runs again, closing over the new render; it sets
\* isAiThinking and suspends.  task is the run still suspended, if any.
Render(newState, newMode, task) ==
    LET rerun == DepsChanged(newState, newMode)
        starts == rerun /\ AiTurnStarts(newState, newMode)
    IN  /\ gameState' = Committed(newState, newMode)
        /\ gameMode' = newMode
        /\ aiTurn' = IF starts
                     THEN [live |-> TRUE, gameState |-> newState,
                           gameMode |-> newMode, isHost |-> isHost,
                           connectionStatus |-> connectionStatus,
                           targetScore |-> targetScore]
                     ELSE IF rerun THEN NoTask ELSE task

\* The handlers' isMyTurn.
isMyTurn ==
    \/ (gameMode = "AI" /\ gameState.currentPlayerIndex = 0)
    \/ (gameMode = "ONLINE" /\ isHost /\ gameState.currentPlayerIndex = 0)
    \/ (gameMode = "ONLINE" /\ ~isHost /\ gameState.currentPlayerIndex = 1)
    \/ gameMode = "LOCAL"

\* The index of the player whose hand the playing screen shows.
HumanIndex ==
    IF gameMode = "ONLINE" /\ ~isHost THEN 1
    ELSE IF gameMode = "LOCAL" THEN gameState.currentPlayerIndex
    ELSE 0

\* The round setups explored in the current behaviour.
RoundLimit == IF peerRef.bound THEN MaxNetRounds ELSE MaxRounds

\* A modal layer covers the playing screen's cards, draw pile and header:
\* the colour picker (ColorPicker.tsx:11) or the multiplayer menu.
Overlay == pendingWildCard # NoCard \/ isMultiplayerMenuOpen

\* The state updates of one handler call: setGameState (when u.set), then
\* the effect; setPendingWildCard(null) (when u.clearPending); the sends.
Apply(u, base, task) ==
    /\ Render(IF u.set THEN u.gameState ELSE base, gameMode, task)
    /\ pendingWildCard' = IF u.clearPending THEN NoCard ELSE pendingWildCard
    /\ Len(sent \o u.msgs) <= MaxSent
    /\ sent' = sent \o u.msgs

\* --------------------------------------------------- startMultiplayerMatch
\* startMultiplayerMatch(resetScores) called in closure cl.
startMultiplayerMatch(cl, resetScores) ==
    IF ~cl.isHost THEN {Update(FALSE, cl.gameState, FALSE, <<>>)}
    ELSE LET players == IF resetScores \/ Len(cl.gameState.players) = 0
                        THEN <<NewPlayer("Host (You)", FALSE), NewPlayer("Opponent", FALSE)>>
                        ELSE ClearHands(cl.gameState.players)
         IN  {Update(TRUE, newState, FALSE,
                     sendMultiplayerMessage(cl, Msg("STATE_UPDATE", NoCard, NoColor, <<newState>>))) :
                newState \in setupRound(players, 0)}

\* ---------------------------------------------------------------- actions
\* "Start AI Match" on the lobby screen, "New Match" on the game-over screen.
StartMatch ==
    /\ gameState.status \in {"LOBBY", "GAME_OVER"}
    /\ gameState.status = "LOBBY" => ~isMultiplayerMenuOpen
    /\ rounds < RoundLimit
    /\ \E s \in setupRound(<<NewPlayer("You", FALSE), NewPlayer("Gemini", TRUE)>>, 0) :
          Render(s, "AI", aiTurn)
    /\ rounds' = rounds + 1
    /\ UNCHANGED <<targetScore, pendingWildCard, sent>>
    /\ UNCHANGED netVars

\* "Pass & Play" on the lobby screen.
StartLocalMatch ==
    /\ gameState.status = "LOBBY" /\ ~isMultiplayerMenuOpen
    /\ rounds < RoundLimit
    /\ \E s \in setupRound(<<NewPlayer("Player 1", FALSE), NewPlayer("Player 2", FALSE)>>, 0) :
          Render(s, "LOCAL", aiTurn)
    /\ rounds' = rounds + 1
    /\ UNCHANGED <<targetScore, pendingWildCard, sent>>
    /\ UNCHANGED netVars

\* "Next Round" on the round-over screen: nextRound().
NextRound ==
    /\ gameState.status = "ROUND_OVER"
    /\ ~(gameMode = "ONLINE" /\ ~isHost) => rounds < RoundLimit
    /\ \E u \in (IF gameMode = "ONLINE"
                 THEN (IF isHost
                       THEN startMultiplayerMatch(Closure, FALSE)
                       ELSE {Update(FALSE, gameState, FALSE,
                                    sendMultiplayerMessage(Closure, Msg("RESTART_REQUEST", NoCard, NoColor, <<>>)))})
                 ELSE {Update(TRUE, s, FALSE, <<>>) :
                         s \in UNION {setupRound(ClearHands(gameState.players), start) :
                                        start \in IF gameMode = "LOCAL"
                                                  THEN {(gameState.currentPlayerIndex + 1) % 2}
                                                  ELSE 0..(Len(gameState.players) - 1)}}) :
          /\ Apply(u, gameState, aiTurn)
          /\ rounds' = IF u.set THEN rounds + 1 ELSE rounds
    /\ UNCHANGED targetScore
    /\ UNCHANGED netVars

\* A variant of handleHumanPlay without the isValidMove gate.
handleHumanPlayUnchecked(card, index) ==
    IF gameState.status # "PLAYING" \/ ~isMyTurn
    THEN {[pending |-> pendingWildCard, u |-> Update(FALSE, gameState, FALSE, <<>>)]}
    ELSE IF CardColor(card) = BLACK
    THEN {[pending |-> card, u |-> Update(FALSE, gameState, FALSE, <<>>)]}
    ELSE {[pending |-> pendingWildCard, u |-> x] :
            x \in finalizeMove(Closure, card, index, NoColor, gameState)}

\* handleHumanPlay(card, index) in the current render: the pending wild
\* card it leaves and the state update it makes.
handleHumanPlay(card, index) ==
    IF gameState.status # "PLAYING"
    THEN {[pending |-> pendingWildCard, u |-> Update(FALSE, gameState, FALSE, <<>>)]}
    ELSE IF ~isMyTurn
    THEN {[pending |-> pendingWildCard, u |-> Update(FALSE, gameState, FALSE, <<>>)]}
    ELSE IF ~isValidMove(card, Last(gameState.discardPile), gameState.currentColor)
    THEN {[pending |-> pendingWildCard, u |-> Update(FALSE, gameState, FALSE, <<>>)]}
    ELSE IF CardColor(card) = BLACK
    THEN {[pending |-> card, u |-> Update(FALSE, gameState, FALSE, <<>>)]}
    ELSE {[pending |-> pendingWildCard, u |-> x] :
            x \in finalizeMove(Closure, card, index, NoColor, gameState)}

\* A click on a card of the shown hand that handleHumanPlay(card, index)
\* does not reject.
HumanPlay ==
    /\ gameState.status = "PLAYING"
    /\ ~Overlay
    /\ isMyTurn
    /\ \E index \in 0..(Len(PlayerAt(gameState, HumanIndex).hand) - 1) :
          LET card == PlayerAt(gameState, HumanIndex).hand[index + 1]
          IN  /\ isValidMove(card, Last(gameState.discardPile), gameState.currentColor)
              /\ \E r \in handleHumanPlay(card, index) :
                    IF r.pending # pendingWildCard
                    THEN /\ pendingWildCard' = r.pending
                         /\ UNCHANGED <<gameState, gameMode, aiTurn, sent>>
                    ELSE Apply(r.u, gameState, aiTurn)
    /\ UNCHANGED <<targetScore, rounds>>
    /\ UNCHANGED netVars

\* A click on the draw pile: handleHumanDraw().
HumanDraw ==
    /\ gameState.status = "PLAYING"
    /\ ~Overlay
    /\ isMyTurn
    /\ \E u \in (IF gameMode = "ONLINE" /\ ~isHost
                 THEN {Update(FALSE, gameState, FALSE,
                              sendMultiplayerMessage(Closure, Msg("PLAYER_DRAW", NoCard, NoColor, <<>>)))}
                 ELSE {Update(TRUE, nextTurn(s), FALSE, SyncState(Closure, nextTurn(s))) :
                         s \in drawCards(gameState.currentPlayerIndex, 1, gameState)}) :
          /\ Render(IF u.set THEN u.gameState ELSE gameState, gameMode, aiTurn)
          /\ Len(sent \o u.msgs) <= MaxSent
          /\ sent' = sent \o u.msgs
    /\ UNCHANGED <<targetScore, pendingWildCard, rounds>>
    /\ UNCHANGED netVars

\* A colour chosen in the colour picker: handleColorPick(color).
ColorPick ==
    /\ gameState.status = "PLAYING"
    /\ pendingWildCard # NoCard
    /\ \E color \in PickColors :
          LET index == FindIndex(PlayerAt(gameState, HumanIndex).hand, pendingWildCard)
          IN  IF index = -1
              THEN /\ pendingWildCard' = NoCard
                   /\ UNCHANGED <<gameState, gameMode, aiTurn, sent>>
              ELSE \E u \in finalizeMove(Closure, pendingWildCard, index, color, gameState) :
                      Apply(u, gameState, aiTurn)
    /\ UNCHANGED <<targetScore, rounds>>
    /\ UNCHANGED netVars

\* The suspended runAiTurn resumes: getAiMove resolves, isAiThinking is
\* reset, and the move is applied in the closure of the render that
\* started the run.
AiResolve ==
    /\ aiTurn.live
    /\ \E move \in getAiMove(aiTurn.gameState, aiTurn.gameState.currentPlayerIndex) :
          \E u \in ApplyAiMove(aiTurn, move) :
             Apply(u, [gameState EXCEPT !.isAiThinking = FALSE], NoTask)
    /\ UNCHANGED <<targetScore, rounds>>
    /\ UNCHANGED netVars

\* The target-score slider of the settings, reachable from the lobby and
\* from the playing screen's header.
SetTargetScore ==
    /\ gameState.status \in {"LOBBY", "PLAYING"}
    /\ IF gameState.status = "LOBBY" THEN ~isMultiplayerMenuOpen ELSE ~Overlay
    /\ targetScore \notin SliderScores \/ Cardinality(SliderScores) > 1
    /\ \E value \in SliderScores : targetScore' = value
    /\ UNCHANGED <<gameState, gameMode, pendingWildCard, aiTurn, sent, rounds>>
    /\ UNCHANGED netVars

\* "Online PvP" on the lobby screen.
OpenOnlineMenu ==
    /\ gameState.status = "LOBBY" /\ ~isMultiplayerMenuOpen
    /\ isMultiplayerMenuOpen' = TRUE
    /\ Render(gameState, "ONLINE", aiTurn)
    /\ UNCHANGED <<targetScore, pendingWildCard, sent, rounds, isHost,
                   connectionStatus, peerRef, connRef, listener, opening,
                   startTimer, connections>>

\* The close button of the multiplayer menu.
CloseMenu ==
    /\ isMultiplayerMenuOpen
    /\ isMultiplayerMenuOpen' = FALSE
    /\ connectionStatus' = "DISCONNECTED"
    /\ UNCHANGED <<gameState, gameMode, targetScore, pendingWildCard, aiTurn,
                   sent, rounds, isHost, peerRef, connRef, listener, opening,
                   startTimer, connections>>

\* "Host Game" in the multiplayer menu: initializePeer(); the callbacks it
\* registers close over the render of the click.
InitializePeer ==
    /\ isMultiplayerMenuOpen /\ connectionStatus = "DISCONNECTED"
    /\ ~peerRef.bound
    /\ peerRef' = Closure
    /\ UNCHANGED <<gameState, gameMode, targetScore, pendingWildCard, aiTurn,
                   sent, rounds, isHost, connectionStatus, isMultiplayerMenuOpen,
                   connRef, listener, opening, startTimer, connections>>

\* peer.on('connection'): a remote peer connected to this one.
PeerConnection ==
    /\ peerRef.bound
    /\ connections < MaxConnections
    /\ connRef' = TRUE
    /\ connectionStatus' = "CONNECTED"
    /\ isHost' = TRUE
    /\ listener' = peerRef
    /\ startTimer' = TRUE
    /\ connections' = connections + 1
    /\ UNCHANGED <<gameState, gameMode, targetScore, pendingWildCard, aiTurn,
                   sent, rounds, isMultiplayerMenuOpen, peerRef, opening>>

\* The timeout set by the connection callback: startMultiplayerMatch(true)
\* in the closure of the render in which initializePeer ran.
HostStartTimeout ==
    /\ startTimer
    /\ startTimer' = FALSE
    /\ peerRef.isHost => rounds < RoundLimit
    /\ \E u \in startMultiplayerMatch(peerRef, TRUE) :
          /\ Apply(u, gameState, aiTurn)
          /\ rounds' = IF u.set THEN rounds + 1 ELSE rounds
    /\ UNCHANGED <<targetScore, isHost, connectionStatus, isMultiplayerMenuOpen,
                   peerRef, connRef, listener, opening, connections>>

\* "Join Game" in the multiplayer menu with a host code entered:
\* connectToPeer().
ConnectToPeer ==
    /\ isMultiplayerMenuOpen /\ connectionStatus = "DISCONNECTED"
    /\ peerRef.bound
    /\ connections < MaxConnections
    /\ connectionStatus' = "CONNECTING"
    /\ connRef' = TRUE
    /\ opening' = Closure
    /\ connections' = connections + 1
    /\ UNCHANGED <<gameState, gameMode, targetScore, pendingWildCard, aiTurn,
                   sent, rounds, isHost, isMultiplayerMenuOpen, peerRef,
                   listener, startTimer>>

\* conn.on('open') of the outgoing connection.
ConnOpen ==
    /\ opening.bound
    /\ connectionStatus' = "CONNECTED"
    /\ isHost' = FALSE
    /\ listener' = opening
    /\ opening' = NoClosure
    /\ UNCHANGED <<gameState, gameMode, targetScore, pendingWildCard, aiTurn,
                   sent, rounds, isMultiplayerMenuOpen, peerRef, connRef,
                   startTimer, connections>>

\* A variant of the close handler that shows the round-over screen.
ConnCloseToRoundOver ==
    /\ listener.bound
    /\ listener' = NoClosure
    /\ connectionStatus' = "DISCONNECTED"
    /\ Render([gameState EXCEPT !.status = "ROUND_OVER"], gameMode, aiTurn)
    /\ UNCHANGED <<targetScore, pendingWildCard, sent, rounds, isHost,
                   isMultiplayerMenuOpen, peerRef, connRef, opening, startTimer,
                   connections>>

\* A variant of the close handler that leaves the match state alone.
ConnCloseKeepsState ==
    /\ listener.bound
    /\ listener' = NoClosure
    /\ connectionStatus' = "DISCONNECTED"
    /\ UNCHANGED <<gameState, gameMode, aiTurn, targetScore, pendingWildCard,
                   sent, rounds, isHost, isMultiplayerMenuOpen, peerRef,
                   connRef, opening, startTimer, connections>>

\* conn.on('close'): the remote side went away.
ConnClose ==
    /\ listener.bound
    /\ listener' = NoClosure
    /\ connectionStatus' = "DISCONNECTED"
    /\ Render([gameState EXCEPT !.status = "LOBBY"], gameMode, aiTurn)
    /\ UNCHANGED <<targetScore, pendingWildCard, sent, rounds, isHost,
                   isMultiplayerMenuOpen, peerRef, connRef, opening, startTimer,
                   connections>>

Next ==
    \/ StartMatch
    \/ StartLocalMatch
    \/ NextRound
    \/ HumanPlay
    \/ HumanDraw
    \/ ColorPick
    \/ AiResolve
    \/ SetTargetScore
    \/ OpenOnlineMenu
    \/ CloseMenu
    \/ InitializePeer
    \/ PeerConnection
    \/ HostStartTimeout
    \/ ConnectToPeer
    \/ ConnOpen
    \/ ConnClose

Spec == Init /\ [][Next]_vars

\* The program in the single-player mode while no peer exists.
NextAI ==
    \/ StartMatch
    \/ NextRound
    \/ HumanPlay
    \/ HumanDraw
    \/ ColorPick
    \/ AiResolve

SpecAI == Init /\ [][NextAI]_vars

\* The single-player mode with the target-score setting.
NextAITarget ==
    \/ NextAI
    \/ SetTargetScore

SpecAITarget == Init /\ [][NextAITarget]_vars

\* The pass-and-play mode while no peer exists.
NextLocal ==
    \/ StartLocalMatch
    \/ NextRound
    \/ HumanPlay
    \/ HumanDraw
    \/ ColorPick
    \/ SetTargetScore

SpecLocal == Init /\ [][NextLocal]_vars

\* ------------------------------------------------- the data listener
\* The card ids a move-request can name.
PackIds == {Pack[k] : k \in 1..DeckSize}

\* The PLAYER_MOVE branch of the conn.on('data') listener that
\* setupConnectionListeners registered in closure cl.  gameState.players[1]
\* of a state without players is undefined and reading its hand throws:
\* nothing is set then.
OnPlayerMove(cl, cardId, wildColor) ==
    IF cl.isHost /\ Len(cl.gameState.players) >= 2
    THEN LET player == cl.gameState.players[2]
             cardIndex == FindIndex(player.hand, cardId)
         IN  IF cardIndex # -1
             THEN finalizeMove(cl, player.hand[cardIndex + 1], cardIndex,
                               wildColor, cl.gameState)
             ELSE {Update(FALSE, cl.gameState, FALSE, <<>>)}
    ELSE {Update(FALSE, cl.gameState, FALSE, <<>>)}

\* A PLAYER_MOVE message arrives on the connection.
PlayerMove(cardId, wildColor) ==
    /\ listener.bound
    /\ \E u \in OnPlayerMove(listener, cardId, wildColor) :
          Apply(u, gameState, aiTurn)
    /\ UNCHANGED <<targetScore, rounds>>
    /\ UNCHANGED netVars

ReceiveMove ==
    \E cardId \in PackIds, wildColor \in PickColors \cup {NoColor} :
       PlayerMove(cardId, wildColor)

\* No instance of the program ever hands a message to its connection, so
\* between instances of the program no message arrives: Spec has no
\* receive step.
NothingSent == sent = <<>>

\* The listener under a peer that does send.  The states it starts from
\* are states of the program that Spec reaches with MaxConnections = 2,
\* for every deal: host a game, a peer connects (isHost becomes true),
\* close the menu, start an AI match, the peer disconnects (back to the
\* lobby with the round's cards), open the menu and join another peer.
\* The listener of the outgoing connection closed over the render of the
\* "Join Game" click: isHost true, the interrupted round, DISCONNECTED.
InitMove ==
    /\ \E s \in setupRound(<<NewPlayer("You", FALSE), NewPlayer("Gemini", TRUE)>>, 0) :
          /\ gameState = [s EXCEPT !.status = "LOBBY"]
          /\ listener = [bound |-> TRUE,
                         gameState |-> [s EXCEPT !.status = "LOBBY"],
                         gameMode |-> "ONLINE", isHost |-> TRUE,
                         connectionStatus |-> "DISCONNECTED",
                         targetScore |-> DefaultTargetScore]
    /\ gameMode = "ONLINE"
    /\ targetScore = DefaultTargetScore
    /\ pendingWildCard = NoCard
    /\ aiTurn = NoTask
    /\ isHost = FALSE
    /\ connectionStatus = "CONNECTED"
    /\ isMultiplayerMenuOpen = TRUE
    /\ peerRef = [bound |-> TRUE, gameState |-> InitialGameState,
                  gameMode |-> "ONLINE", isHost |-> FALSE,
                  connectionStatus |-> "DISCONNECTED",
                  targetScore |-> DefaultTargetScore]
    /\ connRef = TRUE
    /\ opening = NoClosure
    /\ startTimer = FALSE
    /\ sent = <<>>
    /\ rounds = 0
    /\ connections = MaxConnections

NextMove ==
    \/ ReceiveMove
    \/ CloseMenu
    \/ StartMatch

SpecMove == InitMove /\ [][NextMove]_vars

\* ------------------------------------- the other branches of the listener
\* A variant of the STATE_UPDATE branch that keeps the status the listener
\* closed over.
OnStateUpdateKeepStatus(cl, payload) ==
    {Update(TRUE, [payload EXCEPT !.status = cl.gameState.status], FALSE, <<>>)}

\* The STATE_UPDATE branch: setGameState(msg.payload).
OnStateUpdate(cl, payload) == {Update(TRUE, payload, FALSE, <<>>)}

\* handleMultiplayerDraw(playerIndex) called in closure cl.  With fewer
\* players than playerIndex + 1 and a card to draw, drawCards throws and
\* nothing is set; with no card to draw the hands are not touched.
handleMultiplayerDraw(cl, playerIndex) ==
    IF playerIndex < Len(cl.gameState.players)
    THEN {Update(TRUE, nextTurn(s), FALSE,
                 sendMultiplayerMessage(cl, Msg("STATE_UPDATE", NoCard, NoColor, <<nextTurn(s)>>))) :
            s \in drawCards(playerIndex, 1, cl.gameState)}
    ELSE IF Len(cl.gameState.deck) = 0
         THEN {Update(TRUE, nextTurn(cl.gameState), FALSE,
                      sendMultiplayerMessage(cl, Msg("STATE_UPDATE", NoCard, NoColor,
                                                     <<nextTurn(cl.gameState)>>)))}
         ELSE {Update(FALSE, cl.gameState, FALSE, <<>>)}

\* The PLAYER_DRAW branch of the listener registered in closure cl.
OnPlayerDraw(cl) ==
    IF cl.isHost THEN handleMultiplayerDraw(cl, 1)
    ELSE {Update(FALSE, cl.gameState, FALSE, <<>>)}

\* The RESTART_REQUEST branch of the listener registered in closure cl.
OnRestartRequest(cl) ==
    IF cl.isHost THEN startMultiplayerMatch(cl, FALSE)
    ELSE {Update(FALSE, cl.gameState, FALSE, <<>>)}

\* A STATE_UPDATE message with the given payload arrives.
StateUpdate(payload) ==
    /\ listener.bound
    /\ \E u \in OnStateUpdate(listener, payload) : Apply(u, gameState, aiTurn)
    /\ UNCHANGED <<targetScore, rounds>>
    /\ UNCHANGED netVars

\* A PLAYER_DRAW message arrives on the connection.
ReceiveDraw ==
    /\ listener.bound
    /\ \E u \in OnPlayerDraw(listener) : Apply(u, gameState, aiTurn)
    /\ UNCHANGED <<targetScore, rounds>>
    /\ UNCHANGED netVars

\* A RESTART_REQUEST message arrives on the connection.
ReceiveRestart ==
    /\ listener.bound
    /\ listener.isHost => rounds < RoundLimit
    /\ \E u \in OnRestartRequest(listener) :
          /\ Apply(u, gameState, aiTurn)
          /\ rounds' = IF u.set THEN rounds + 1 ELSE rounds
    /\ UNCHANGED targetScore
    /\ UNCHANGED netVars

\* The instance whose listener takes itself for the authority, under a
\* peer that sends requests: the states of InitMove, every request type,
\* and the end of the connection.
NextAuthority ==
    \/ ReceiveMove
    \/ ReceiveDraw
    \/ ReceiveRestart
    \/ ConnClose

SpecAuthority == InitMove /\ [][NextAuthority]_vars

\* ------------------------------------------------- the remote authority
\* The deck turned by k cards.
Rotate(deck, k) ==
    [i \in 1..Len(deck) |-> deck[((i - 1 + k) % Len(deck)) + 1]]

\* The closure under which finalizeMove computes the next state of a remote
\* authority with the given target score.  What the remote instance sends
\* goes to its own connection, not to this instance's: the mode is one that
\* takes the same rule branch of finalizeMove and sends nothing here.
RemoteAuthority(target) ==
    [bound |-> TRUE, gameState |-> InitialGameState, gameMode |-> "LOCAL",
     isHost |-> TRUE, connectionStatus |-> "CONNECTED", targetScore |-> target]

\* The rounds the remote authority's startMultiplayerMatch(true) can deal
\* from the decks tried.
RemoteRounds ==
    {RoundState(Rotate(Pack, k),
                <<NewPlayer("Host (You)", FALSE), NewPlayer("Opponent", FALSE)>>, 0) :
       k \in 0..(SnapshotDeals - 1)}

\* The states one play or draw of the player to move leads to on the
\* remote authority: handleHumanPlay / handleColorPick / the PLAYER_MOVE
\* branch, then finalizeMove; handleHumanDraw / handleMultiplayerDraw.
RemoteSteps(state, cl) ==
    IF state.status # "PLAYING" THEN {}
    ELSE LET hand == PlayerAt(state, state.currentPlayerIndex).hand
             plays == UNION {
                 UNION {{u.gameState :
                           u \in finalizeMove(cl, hand[i], i - 1, color, state)} :
                        color \in IF CardColor(hand[i]) = BLACK
                                  THEN PickColors ELSE {NoColor}} :
                 i \in {j \in 1..Len(hand) :
                          isValidMove(hand[j], Last(state.discardPile),
                                      state.currentColor)}}
             draws == {nextTurn(t) :
                         t \in drawCards(state.currentPlayerIndex, 1, state)}
         IN  plays \cup draws

RECURSIVE RemoteStates(_, _)
\* The states of the remote authority within depth rule steps of a deal.
RemoteStates(depth, cl) ==
    IF depth = 0 THEN RemoteRounds
    ELSE LET before == RemoteStates(depth - 1, cl)
         IN  before \cup UNION {RemoteSteps(state, cl) : state \in before}

\* The payloads of the state-snapshots that arrive: states of a remote
\* authority whose target score is the default or the slider's minimum.
Snapshots ==
    RemoteStates(SnapshotDepth, RemoteAuthority(DefaultTargetScore))
    \cup RemoteStates(SnapshotDepth, RemoteAuthority(MinTargetScore))

\* A STATE_UPDATE message arrives on the connection.
ReceiveState == \E payload \in Snapshots : StateUpdate(payload)

\* The instance that joins a remote authority's game, under a peer that
\* sends state-snapshots.
NextFollower ==
    \/ OpenOnlineMenu
    \/ CloseMenu
    \/ InitializePeer
    \/ ConnectToPeer
    \/ ConnOpen
    \/ ConnClose
    \/ ReceiveState
    \/ HumanPlay
    \/ HumanDraw
    \/ ColorPick
    \/ NextRound
    \/ StartMatch
    \/ AiResolve

SpecFollower == Init /\ [][NextFollower]_vars

\* The joining instance for as long as it stays in networked mode.
NextJoin ==
    \/ OpenOnlineMenu
    \/ CloseMenu
    \/ InitializePeer
    \/ ConnectToPeer
    \/ ConnOpen
    \/ ConnClose
    \/ ReceiveState
    \/ HumanPlay
    \/ HumanDraw
    \/ ColorPick
    \/ NextRound

SpecJoin == Init /\ [][NextJoin]_vars

\* ------------------------------------------------------- the turn rules
\* nextTurn, handleCardEffect, drawCards and finalizeMove take any number
\* of players and either direction (the program itself seats two and
\* starts clockwise).  The games below seat 2..MaxPlayers players of a
\* pass-and-play match, deal HandSize cards each from all the cards of
\* Selection, start at any seat in either direction, and are followed for
\* their first move.
RulePlayers(n) ==
    [i \in 1..n |-> NewPlayer(<<"Player 1", "Player 2", "Player 3", "Player 4">>[i], FALSE)]

RuleState(k, n, start, dir) ==
    [RoundState(Rotate(Selection, k), RulePlayers(n), start) EXCEPT !.direction = dir]

InitRules ==
    /\ \E k \in 0..(RuleDeals - 1), n \in 2..MaxPlayers, dir \in {1, -1} :
          \E start \in 0..(n - 1) : gameState = RuleState(k, n, start, dir)
    /\ gameMode = "LOCAL"
    /\ targetScore = DefaultTargetScore
    /\ pendingWildCard = NoCard
    /\ aiTurn = NoTask
    /\ isHost = FALSE
    /\ connectionStatus = "DISCONNECTED"
    /\ isMultiplayerMenuOpen = FALSE
    /\ peerRef = NoClosure
    /\ connRef = FALSE
    /\ listener = NoClosure
    /\ opening = NoClosure
    /\ startTimer = FALSE
    /\ sent = <<>>
    /\ rounds = 1
    /\ connections = 0

\* The cards lie as they were dealt: one card on the discard pile and
\* HandSize cards in every hand.
FreshDeal ==
    /\ Len(gameState.discardPile) = 1
    /\ \A i \in 1..Len(gameState.players) :
          Len(gameState.players[i].hand) = HandSize

\* The first play of a game: a click on a card of the player to move.
RulePlay == FreshDeal /\ HumanPlay

\* The first draw of a game.
RuleDraw == FreshDeal /\ HumanDraw

\* The colour chosen for a wild card played first.
RulePick == FreshDeal /\ ColorPick

NextRules ==
    \/ RulePlay
    \/ RuleDraw
    \/ RulePick

SpecRules == InitRules /\ [][NextRules]_vars

\* ================================================================ claims
\* Every card the state holds: the deck, the discard pile, then each hand.
Holdings(state) ==
    LET RECURSIVE Hands(_)
        Hands(i) == IF i > Len(state.players) THEN <<>>
                    ELSE state.players[i].hand \o Hands(i + 1)
    IN  state.deck \o state.discardPile \o Hands(1)

\* How many times card id occurs in a sequence of cards.
Occurrences(cards, id) == Cardinality({k \in 1..Len(cards) : cards[k] = id})

\* The cards of all hands, seen as one tuple of hands.
HandsOf(state) == [i \in 1..Len(state.players) |-> state.players[i].hand]

\* C1: after a round setup every card id of the deck is in exactly one of
\* the deck, the discard pile and the hands: none duplicated, none lost.
C1_CardConservation ==
    gameState.status \in {"PLAYING", "ROUND_OVER", "GAME_OVER"} =>
        /\ Len(Holdings(gameState)) = DeckSize
        /\ \A k \in 1..DeckSize : Occurrences(Holdings(gameState), Pack[k]) = 1

\* The step puts one more card on top of the discard pile: a play.
IsPlay ==
    /\ gameState.status = "PLAYING"
    /\ Len(gameState.discardPile) > 0
    /\ Len(gameState'.discardPile) = Len(gameState.discardPile) + 1
    /\ SubSeq(gameState'.discardPile, 1, Len(gameState.discardPile)) = gameState.discardPile

\* C2: in AI and local modes every card that a play puts on top of the
\* discard pile satisfies isValidMove against the previous top card and
\* the active colour at the moment it is played.
C2_PlayedCardsValid ==
    [][(gameMode \in {"AI", "LOCAL"} /\ IsPlay) =>
          isValidMove(Last(gameState'.discardPile), Last(gameState.discardPile),
                      gameState.currentColor)]_vars

\* C3: a play attempted on behalf of a player who is not the active player
\* (here: the colour pick of a pending wild by the human while another
\* player is active) changes neither any hand nor the turn pointer.
C3_NoActionOutOfTurn ==
    [][(ColorPick /\ gameState.currentPlayerIndex # HumanIndex) =>
          /\ HandsOf(gameState') = HandsOf(gameState)
          /\ gameState'.currentPlayerIndex = gameState.currentPlayerIndex]_vars

\* It is the computer's turn in a running single-player round and no
\* decision of the computer is in progress.
AiTurnIdle ==
    /\ gameMode = "AI"
    /\ gameState.status = "PLAYING"
    /\ PlayerAt(gameState, gameState.currentPlayerIndex).isAi
    /\ ~aiTurn.live

\* The single-player mode with every enabled step eventually taken.
SpecAIFair == SpecAI /\ WF_vars(NextAI)

\* C4: in AI mode the match never stays forever on the computer's turn
\* with no decision in progress: such a turn is eventually resolved.
C4_ComputerTurnResolved == AiTurnIdle ~> ~AiTurnIdle

\* The step ends a round: a play emptied a hand.
RoundEnds ==
    /\ gameState.status = "PLAYING"
    /\ gameState'.status \in {"ROUND_OVER", "GAME_OVER"}

\* The sum of the hand scores of all players of a state.
HandScoreTotal(state) ==
    LET RECURSIVE Total(_)
        Total(i) == IF i > Len(state.players) THEN 0
                    ELSE calculateHandScore(state.players[i].hand) + Total(i + 1)
    IN  Total(1)

\* C5: when a play empties the playing player's hand, that player's score
\* grows by exactly the sum of the hand scores of the other players,
\* pointsWon is that sum, and no other player's score changes.
C5_RoundAward ==
    [][RoundEnds =>
          \E w \in 1..Len(gameState'.players) :
             /\ gameState'.players[w].hand = <<>>
             /\ gameState'.players[w].score =
                   gameState.players[w].score + HandScoreTotal(gameState')
             /\ gameState'.pointsWon = HandScoreTotal(gameState')
             /\ \A j \in 1..Len(gameState'.players) :
                   j # w => gameState'.players[j].score = gameState.players[j].score]_vars

\* A round has ended in the second round with points awarded on top of an
\* earlier award.
C5_Witness ==
    /\ gameState.status \in {"ROUND_OVER", "GAME_OVER"}
    /\ gameState.pointsWon > 0
    /\ \E w \in 1..Len(gameState.players) :
          /\ gameState.players[w].hand = <<>>
          /\ gameState.players[w].score > gameState.pointsWon

\* C6: a play that empties the hand sets status to game-over if and only
\* if the player's score after the award has reached the target score,
\* and the match winner is set exactly in the game-over case.
C6_MatchOverIffTarget ==
    [][RoundEnds =>
          \E w \in 1..Len(gameState'.players) :
             /\ gameState'.players[w].hand = <<>>
             /\ gameState'.status = "GAME_OVER"
                   <=> gameState'.players[w].score >= targetScore
             /\ gameState'.winner # NoName <=> gameState'.status = "GAME_OVER"]_vars

\* The step is the close handler's reset to the lobby.
Disconnects ==
    /\ listener.bound
    /\ ~listener'.bound
    /\ gameState'.status = "LOBBY"

GameRelevant(state) ==
    <<state.deck, state.discardPile, HandsOf(state), state.currentPlayerIndex,
      state.direction, state.currentColor,
      [i \in 1..Len(state.players) |-> state.players[i].score], state.status>>

\* C8: while the computer's decision is suspended no human action (play,
\* draw, colour pick, next round) changes the deck, the discard pile, the
\* hands, the turn pointer, the direction, the active colour, the scores
\* or the status.
C8_NoHumanChangeWhileThinking ==
    [][(aiTurn.live /\ gameState.isAiThinking
          /\ (HumanPlay \/ HumanDraw \/ ColorPick \/ NextRound)) =>
          GameRelevant(gameState') = GameRelevant(gameState)]_vars

\* C9: the authority applies a move-request only if the named card is in
\* the follower's hand and legal for the current top card and active
\* colour, and then exactly that card leaves the follower's hand and
\* becomes the top of the discard pile.
C9_MoveRequestApplied ==
    [][\A cardId \in PackIds, wildColor \in PickColors \cup {NoColor} :
          (PlayerMove(cardId, wildColor) /\ gameState' # gameState) =>
             LET hand == gameState.players[2].hand
                 index == FindIndex(hand, cardId)
             IN  /\ index # -1
                 /\ isValidMove(cardId, Last(gameState.discardPile),
                                gameState.currentColor)
                 /\ gameState'.players[2].hand = Splice1(hand, index)
                 /\ Last(gameState'.discardPile) = cardId]_vars

\* C10: a move-request whose card is not in the follower's current hand
\* leaves the state unchanged and nothing is broadcast.
C10_StaleRequestIgnored ==
    [][\A cardId \in PackIds, wildColor \in PickColors \cup {NoColor} :
          (PlayerMove(cardId, wildColor)
             /\ FindIndex(gameState.players[2].hand, cardId) = -1) =>
             UNCHANGED <<gameState, sent>>]_vars

\* The state-snapshot message that carries state.
Snapshot(state) == Msg("STATE_UPDATE", NoCard, NoColor, <<state>>)

\* The scores of the players of a state, in player order.
ScoresOf(state) == [i \in 1..Len(state.players) |-> state.players[i].score]

\* The step is a request handled by a listener that takes its instance for
\* the authority of a networked match.
AuthorityRequest ==
    /\ listener.bound
    /\ listener.isHost
    /\ listener.gameMode = "ONLINE"
    /\ (ReceiveMove \/ ReceiveDraw \/ ReceiveRestart)

\* The step is a click handled by the instance as the authority of a
\* networked match.
AuthorityClick ==
    /\ gameMode = "ONLINE"
    /\ isHost
    /\ (HumanPlay \/ HumanDraw \/ ColorPick \/ NextRound)

\* C11: on the authority in networked mode every change of the match state
\* by a game rule (a local play or draw, an applied move- or draw-request,
\* a round start or restart, a round end) hands exactly one state-snapshot
\* to the connection, and its payload is the resulting state.
C11_MutationBroadcast ==
    [][((AuthorityRequest \/ AuthorityClick) /\ gameState' # gameState) =>
          sent' = Append(sent, Snapshot(gameState'))]_vars

\* The step applies a received state-snapshot that carries the new state.
AppliesSnapshot == \E payload \in {gameState'} : StateUpdate(payload)

\* The instance is the follower of an open connection in networked mode.
Follower ==
    /\ gameMode = "ONLINE"
    /\ ~isHost
    /\ listener.bound

\* C12: on the follower in networked mode a play, a colour pick, a draw and
\* a next-round click leave the follower's match state as it is, and the
\* follower's match state changes only when a state-snapshot is received or
\* the connection closes.
C12_FollowerOnlyRequests ==
    [][Follower =>
          /\ (HumanPlay \/ HumanDraw \/ ColorPick \/ NextRound) =>
                gameState' = gameState
          /\ gameState' # gameState => (AppliesSnapshot \/ ConnClose)]_vars

\* C13, in the form of its consequence for one peer: while the connection
\* is open in networked mode and the peer's match state changes, either the
\* step applied a received state-snapshot or it handed the connection a
\* state-snapshot of the new state.  (Otherwise the other side, which holds
\* the state of before or its own, differs with no message in transit.)
C13_PeersAgree ==
    [][(/\ listener.bound /\ listener'.bound
        /\ gameMode = "ONLINE" /\ gameMode' = "ONLINE"
        /\ gameState' # gameState) =>
          \/ AppliesSnapshot
          \/ (Len(sent') > Len(sent) /\ Last(sent') = Snapshot(gameState'))]_vars

\* C14: whatever match state a follower holds, a state-snapshot applied
\* to it leaves the follower with exactly the payload; so a second
\* application of the same snapshot, to a follower that holds the payload,
\* changes nothing.
C14_SnapshotIdempotent ==
    Follower =>
       \A payload \in Snapshots :
          \A u \in OnStateUpdate(listener, payload) :
             /\ u.set
             /\ Committed(u.gameState, gameMode) = payload
             /\ gameState = payload => Committed(u.gameState, gameMode) = gameState

\* A follower that held the lobby's state holds the snapshot of a finished
\* round that was applied to it.
C14_Witness ==
    /\ Follower
    /\ gameState \in Snapshots
    /\ gameState.status = "ROUND_OVER"

\* The step is a message handled by the listener.
Receives ==
    /\ listener.bound
    /\ (AppliesSnapshot \/ ReceiveMove \/ ReceiveDraw \/ ReceiveRestart)

\* C15: when the connection closes the status becomes lobby, and while no
\* connection is open the peer hands nothing to the connection and handles
\* no message.
C15_ClosedConnectionSilent ==
    [][/\ ConnClose => gameState'.status = "LOBBY"
       /\ ~listener.bound => (sent' = sent /\ ~Receives)]_vars

\* The connection closed on a peer that had sent a request over it.
C15_Witness ==
    /\ ~listener.bound
    /\ ~opening.bound
    /\ connections > 0
    /\ gameState.status = "LOBBY"
    /\ connectionStatus = "DISCONNECTED"
    /\ sent # <<>>

\* C16: a restart-request deals a fresh round only when the status is
\* round-over, the fresh round keeps every player's score, and a
\* restart-request in any other status changes nothing.
C16_RestartOnlyAtRoundOver ==
    [][ReceiveRestart =>
          /\ gameState.status # "ROUND_OVER" => gameState' = gameState
          /\ gameState' # gameState =>
                /\ gameState'.status = "PLAYING"
                /\ ScoresOf(gameState') = ScoresOf(gameState)]_vars

\* The number of players and the seat p + k * direction, wrapped.
Seat(state, k) ==
    (state.currentPlayerIndex + k * state.direction) % Len(state.players)

\* The step is a non-winning play of a card of the given type by the player
\* to move: the card leaves that player's hand and tops the discard pile.
Played(type) ==
    /\ gameState.status = "PLAYING"
    /\ gameState'.status = "PLAYING"
    /\ Len(gameState'.discardPile) > 0
    /\ CardType(Last(gameState'.discardPile)) = type
    /\ LET p == gameState.currentPlayerIndex + 1
           card == Last(gameState'.discardPile)
       IN  /\ \E i \in 1..Len(gameState.players[p].hand) :
                gameState.players[p].hand[i] = card
           /\ \A i \in 1..Len(gameState'.players[p].hand) :
                gameState'.players[p].hand[i] # card

\* Every hand but that of the player who moved is as it was.
OtherHandsUnchanged ==
    \A j \in 1..Len(gameState.players) :
       j # gameState.currentPlayerIndex + 1 =>
          gameState'.players[j].hand = gameState.players[j].hand

\* C17: with two or more players, an index in range and direction 1 or -1,
\* nextTurn sets the active index to (current + direction) mod the number
\* of players (so -1 from index 0 is the last player and +1 from the last
\* player is index 0) and changes nothing else.
C17_TurnAdvance ==
    (gameState.status = "PLAYING" /\ Len(gameState.players) >= 2) =>
       nextTurn(gameState) =
          [gameState EXCEPT !.currentPlayerIndex = Seat(gameState, 1)]

\* Counter-clockwise among three players, the player at index 0 has drawn
\* and the turn has passed to the last player.
C17_Witness ==
    /\ gameState.status = "PLAYING"
    /\ Len(gameState.players) = 3
    /\ gameState.direction = -1
    /\ gameState.currentPlayerIndex = 2
    /\ Len(gameState.players[1].hand) = HandSize + 1
    /\ C17_TurnAdvance

\* C18: after a non-winning skip by player p the player to move is the one
\* two seats after p in the direction of play (p again when two play), and
\* the direction and the hands of the other players are unchanged.
C18_SkipEffect ==
    [][Played("SKIP") =>
          /\ gameState'.currentPlayerIndex = Seat(gameState, 2)
          /\ Len(gameState.players) = 2 =>
                gameState'.currentPlayerIndex = gameState.currentPlayerIndex
          /\ gameState'.direction = gameState.direction
          /\ OtherHandsUnchanged]_vars

\* A skip was played among three players.
C18_Witness ==
    /\ gameState.status = "PLAYING"
    /\ Len(gameState.players) = 3
    /\ Len(gameState.discardPile) = 2
    /\ CardType(Last(gameState.discardPile)) = "SKIP"

\* C19: after a non-winning reverse by player p, with two players the
\* direction is unchanged and the turn is back with p, as after a skip;
\* with three or more players the direction is flipped and the player to
\* move is p's neighbour in the new direction.
C19_ReverseEffect ==
    [][Played("REVERSE") =>
          /\ OtherHandsUnchanged
          /\ IF Len(gameState.players) = 2
             THEN /\ gameState'.direction = gameState.direction
                  /\ gameState'.currentPlayerIndex = gameState.currentPlayerIndex
                  /\ gameState'.currentPlayerIndex = Seat(gameState, 2)
             ELSE /\ gameState'.direction = -1 * gameState.direction
                  /\ gameState'.currentPlayerIndex = Seat(gameState, -1)]_vars

\* A reverse was played between two players.
C19_Witness ==
    /\ gameState.status = "PLAYING"
    /\ Len(gameState.players) = 2
    /\ Len(gameState.discardPile) = 2
    /\ CardType(Last(gameState.discardPile)) = "REVERSE"

\* The step is a non-winning draw card of the given type and count played
\* while the deck and the discard pile hold count cards or more.
DrawPlayed(type, count) ==
    /\ Played(type)
    /\ Len(gameState.deck) + Len(gameState.discardPile) >= count

\* The player next to p has count more cards, no other hand has grown, and
\* the player to move is the one after the player who drew.
VictimDrew(count) ==
    LET v == Seat(gameState, 1) + 1
    IN  /\ Len(gameState'.players[v].hand) = Len(gameState.players[v].hand) + count
        /\ \A j \in 1..Len(gameState.players) :
              j # v => Len(gameState'.players[j].hand) <= Len(gameState.players[j].hand)
        /\ gameState'.currentPlayerIndex = Seat(gameState, 2)

\* C20: after a non-winning draw-two (wild-draw-four) by player p with
\* enough cards available, the player next to p in the direction of play
\* has exactly 2 (4) more cards, no other hand grows, and the player to
\* move is the one after the player who drew (p again when two play).
C20_DrawCardEffect ==
    [][/\ DrawPlayed("DRAW_TWO", DrawTwoCount) => VictimDrew(DrawTwoCount)
       /\ DrawPlayed("WILD_DRAW_FOUR", DrawFourCount) => VictimDrew(DrawFourCount)]_vars

\* A wild-draw-four was played among three players and the next player
\* drew four cards, the discard pile turned over for them.
C20_Witness ==
    /\ gameState.status = "PLAYING"
    /\ Len(gameState.players) = 3
    /\ CardType(Last(gameState.discardPile)) = "WILD_DRAW_FOUR"
    /\ \E i \in 1..Len(gameState.players) :
          Len(gameState.players[i].hand) = HandSize + DrawFourCount

\* C21: a draw of n cards from a deck of at least n cards gives the player
\* the first n deck cards and leaves the discard pile as it is; from a deck
\* of fewer than n cards with more than one card on the discard pile, all
\* discard cards but the top go to the deck, the discard pile is left with
\* its former top card alone, and the player gets min(n, former deck +
\* former discard - 1) cards.
C21_DrawMechanics ==
    gameState.status = "PLAYING" =>
       \A playerIndex \in 0..(Len(gameState.players) - 1), n \in 1..DrawFourCount :
          \A after \in drawCards(playerIndex, n, gameState) :
             LET deck == gameState.deck
                 pile == gameState.discardPile
                 hand == gameState.players[playerIndex + 1].hand
                 got == after.players[playerIndex + 1].hand
                 pool == Len(deck) + Len(pile) - 1
                 drawn == SubSeq(got, Len(hand) + 1, Len(got))
             IN  /\ SubSeq(got, 1, Len(hand)) = hand
                 /\ Len(deck) >= n =>
                       /\ drawn = SubSeq(deck, 1, n)
                       /\ after.deck = SubSeq(deck, n + 1, Len(deck))
                       /\ after.discardPile = pile
                 /\ (Len(deck) < n /\ Len(pile) > 1) =>
                       /\ after.discardPile = <<Last(pile)>>
                       /\ Len(drawn) = IF n < pool THEN n ELSE pool
                       /\ Len(after.deck) = pool - Len(drawn)
                       /\ \A k \in 1..(Len(pile) - 1) :
                             Occurrences(drawn \o after.deck, pile[k]) = 1
                       /\ \A k \in 1..Len(deck) :
                             Occurrences(drawn \o after.deck, deck[k]) = 1

\* A draw of four turned the discard pile over: the deck is used up, the
\* discard pile holds one card and a hand holds four cards more than dealt.
C21_Witness ==
    /\ gameState.status = "PLAYING"
    /\ gameState.deck = <<>>
    /\ Len(gameState.discardPile) = 1
    /\ \E i \in 1..Len(gameState.players) :
          Len(gameState.players[i].hand) = HandSize + DrawFourCount

\* C22: a draw never fails and stays well-formed.  Whatever the deck and
\* the discard pile hold, a draw of n cards gives the drawing player no
\* more than n cards, leaves the top of the discard pile and every other
\* hand as they are; and a card the computer plays after its draw is a card
\* it drew, not one it held before.
C22_DrawNeverFails ==
    gameState.status = "PLAYING" =>
       /\ \A playerIndex \in 0..(Len(gameState.players) - 1), n \in 1..DrawFourCount :
             \A after \in drawCards(playerIndex, n, gameState) :
                /\ Last(after.discardPile) = Last(gameState.discardPile)
                /\ Len(after.players[playerIndex + 1].hand)
                      <= Len(gameState.players[playerIndex + 1].hand) + n
                /\ \A j \in 1..Len(gameState.players) :
                      j # playerIndex + 1 =>
                         after.players[j].hand = gameState.players[j].hand
       /\ aiTurn.live =>
             \A u \in handleAiDraw(aiTurn) :
                LET before == aiTurn.gameState
                    hand == PlayerAt(before, before.currentPlayerIndex).hand
                    top == Last(u.gameState.discardPile)
                IN  top # Last(before.discardPile) =>
                       \A i \in 1..Len(hand) : hand[i] # top

\* C23: for every card c of the deck, every top card t and every active
\* colour k, isValidMove(c, t, k) is true exactly when c is a wild or a
\* wild-draw-four, or c has colour k, or c and t have the same type and,
\* when c is a number card, the same value; so every card may follow
\* itself.  It also decides which card of the hand to move could follow
\* the top card of the state.
C23_ValidMove ==
    LET Legal(c, t, k) ==
            \/ CardType(c) \in {"WILD", "WILD_DRAW_FOUR"}
            \/ CardColor(c) = k
            \/ /\ CardType(c) = CardType(t)
               /\ CardType(c) # "NUMBER" \/ CardValue(c) = CardValue(t)
        ids == 0..(Len(OrderedDeck) - 1)
        colors == {COLORS[j] : j \in 1..Len(COLORS)}
    IN  /\ \A c \in ids, t \in ids, k \in colors :
              /\ isValidMove(c, t, k) = Legal(c, t, k)
              /\ isValidMove(c, c, k)
        /\ gameState.status = "PLAYING" =>
              LET hand == PlayerAt(gameState, gameState.currentPlayerIndex).hand
                  top == Last(gameState.discardPile)
              IN  canPlayAny(hand, top, gameState.currentColor)
                     = \E i \in 1..Len(hand) :
                          Legal(hand[i], top, gameState.currentColor)

\* A card was played on a card of another colour and neither is black: the
\* play was legal by its type or its value alone.
C23_Witness ==
    /\ gameState.status = "PLAYING"
    /\ Len(gameState.discardPile) = 2
    /\ CardColor(gameState.discardPile[1]) # BLACK
    /\ CardColor(gameState.discardPile[2]) # BLACK
    /\ CardColor(gameState.discardPile[1]) # CardColor(gameState.discardPile[2])

\* C24: the deck createDeck builds holds exactly 108 cards: per colour one
\* 0, two each of 1 to 9, two skips, two reverses and two draw-twos, and
\* four wilds and four wild-draw-fours; shuffling changes the order only,
\* so every deck createDeck returns, and the state dealt from it, holds
\* each card of the pack exactly once.
C24_DeckComposition ==
    (gameState.status = "PLAYING" /\ FreshDeal) =>
       LET Copies(color, type, value) ==
               Cardinality({i \in 1..Len(OrderedDeck) :
                               OrderedDeck[i] = addCard(color, type, value)})
       IN  /\ Len(OrderedDeck) = 108
           /\ \A c \in 1..Len(COLORS) :
                 /\ Copies(COLORS[c], "NUMBER", 0) = 1
                 /\ \A v \in 1..9 : Copies(COLORS[c], "NUMBER", v) = 2
                 /\ \A type \in {"SKIP", "REVERSE", "DRAW_TWO"} :
                       Copies(COLORS[c], type, -1) = 2
           /\ Copies(BLACK, "WILD", -1) = 4
           /\ Copies(BLACK, "WILD_DRAW_FOUR", -1) = 4
           /\ \A shuffled \in createDeck :
                 /\ Len(shuffled) = Len(Pack)
                 /\ \A k \in 1..Len(Pack) : Occurrences(shuffled, Pack[k]) = 1
           /\ Len(Holdings(gameState)) = Len(Pack)
           /\ \A k \in 1..Len(Pack) : Occurrences(Holdings(gameState), Pack[k]) = 1

\* A deal from a deck the shuffle reordered: the start card is not the
\* first card of the pack.
C24_Witness ==
    /\ gameState.status = "PLAYING"
    /\ FreshDeal
    /\ gameState.deck = <<>>
    /\ gameState.discardPile # <<Pack[1]>>
    /\ Len(gameState.players) = 2

\* C25: calculateHandScore(hand) is the sum over the hand of the face value
\* of a number card, 20 for a skip, reverse or draw-two and 50 for a wild or
\* wild-draw-four; the empty hand scores 0.
C25_HandScore ==
    LET Count(hand, types, value) ==
            Cardinality({i \in 1..Len(hand) :
                            /\ CardType(hand[i]) \in types
                            /\ value >= 0 => CardValue(hand[i]) = value})
        RECURSIVE Faces(_, _)
        Faces(hand, v) ==
            IF v = 0 THEN 0
            ELSE v * Count(hand, {"NUMBER"}, v) + Faces(hand, v - 1)
        Expected(hand) ==
            Faces(hand, 9)
            + 20 * Count(hand, {"SKIP", "REVERSE", "DRAW_TWO"}, -1)
            + 50 * Count(hand, {"WILD", "WILD_DRAW_FOUR"}, -1)
    IN  /\ calculateHandScore(<<>>) = 0
        /\ \A i \in 1..Len(gameState.players) :
              calculateHandScore(gameState.players[i].hand)
                 = Expected(gameState.players[i].hand)
        /\ gameState.status = "ROUND_OVER" =>
              \A c \in 0..(Len(OrderedDeck) - 1) :
                 calculateHandScore(<<c>>) = Expected(<<c>>)

\* A round ended and the points awarded are the score of a losing hand of
\* at least two cards that are not worth the same.
C25_Witness ==
    /\ gameState.status = "ROUND_OVER"
    /\ \E i \in 1..Len(gameState.players) :
          LET hand == gameState.players[i].hand
          IN  /\ Len(hand) >= 2
              /\ CardPoints(hand[1]) # CardPoints(hand[2])
              /\ gameState.pointsWon = calculateHandScore(hand)

\* C26: every round setup (a first round or a next round, against the
\* computer, local or networked) yields a state with status PLAYING,
\* direction +1, a full hand for every player (7 cards in the game, HandSize
\* here), a discard pile of exactly one card that is not a wild-draw-four,
\* and all the other cards of the pack in the deck; the pack holds the
\* cards the deal needs, as the 108 cards do for the players of the game.
C26_RoundSetup ==
    [][(rounds' = rounds + 1 /\ Len(Pack) > HandSize * Len(gameState'.players)) =>
          /\ gameState'.status = "PLAYING"
          /\ gameState'.direction = 1
          /\ Len(gameState'.players) >= 2
          /\ \A i \in 1..Len(gameState'.players) :
                Len(gameState'.players[i].hand) = HandSize
          /\ Len(gameState'.discardPile) = 1
          /\ CardType(gameState'.discardPile[1]) # "WILD_DRAW_FOUR"
          /\ Len(gameState'.deck)
                = Len(Pack) - 1 - HandSize * Len(gameState'.players)]_vars

\* A second round was dealt to players who keep a score of the first, and
\* the wild-draw-four, which cannot start the round, went to a hand.
C26_Witness ==
    /\ rounds = 2
    /\ gameState.status = "PLAYING"
    /\ FreshDeal
    /\ \E i \in 1..Len(gameState.players) : gameState.players[i].score > 0
    /\ \E i \in 1..Len(gameState.players) :
          \E k \in 1..Len(gameState.players[i].hand) :
             CardType(gameState.players[i].hand[k]) = "WILD_DRAW_FOUR"

\* The instance of InitMove under a peer that sends state-snapshots and
\* restart requests.
NextRestart ==
    \/ ReceiveState
    \/ ReceiveRestart
    \/ ConnClose

SpecRestart == InitMove /\ [][NextRestart]_vars

\* C27: scores are never negative; the start of a next round leaves every
\* score as it is, and so does every play or draw that leaves the round
\* running; a score goes down (back to zero) only when a match is started
\* from the lobby or the game-over screen.  The steps are those in which
\* the instance computes the state itself, not those in which it adopts a
\* state-snapshot of its peer.
C27_ScoresKept ==
    [][(/\ gameState.players # <<>>
        /\ Len(gameState'.players) = Len(gameState.players)
        /\ ~AppliesSnapshot) =>
          LET matchStart == /\ gameState.status \in {"LOBBY", "GAME_OVER"}
                            /\ rounds' = rounds + 1
              kept == \A i \in 1..Len(gameState.players) :
                         gameState'.players[i].score = gameState.players[i].score
          IN  /\ \A i \in 1..Len(gameState.players) :
                    /\ gameState'.players[i].score >= 0
                    /\ ~matchStart =>
                          gameState'.players[i].score >= gameState.players[i].score
              /\ (gameState.status = "ROUND_OVER" /\ rounds' = rounds + 1) => kept
              /\ (gameState.status = "PLAYING" /\ gameState'.status = "PLAYING") => kept]_vars

\* C28: in a local two-player match the player who starts round k+1 is the
\* one after the player who started round k, whoever won round k.  The first
\* round starts with player 0, so the second starts with player 1.
C28_StarterRotates ==
    [][(/\ gameMode = "LOCAL"
        /\ gameState.status = "ROUND_OVER"
        /\ rounds = 1
        /\ rounds' = rounds + 1) =>
          LET firstStarter == 0
          IN  gameState'.currentPlayerIndex = (firstStarter + 1) % 2]_vars

\* C29: when the move service answers a play without a card index or with
\* an index outside the computer's hand, what the computer then does is what
\* it does with the move of the fallback strategy (under one of the
\* personalities) for the same state.
C29_FallbackOnBadAnswer ==
    aiTurn.live =>
       LET state == aiTurn.gameState
           playerIndex == state.currentPlayerIndex
           aiHand == PlayerAt(state, playerIndex).hand
           unusable == {m \in ServiceMoves(state, playerIndex) :
                          /\ m.action = "play"
                          /\ Len(m.cardIndex) = 1 =>
                                m.cardIndex[1] \notin 0..(Len(aiHand) - 1)}
       IN  \A m \in unusable :
              \E w \in Wittiness :
                 ApplyAiMove(aiTurn, m)
                    = ApplyAiMove(aiTurn, FallbackMove(state, playerIndex, w))

C31_WildColorChoice ==
    LET Most(hand, color) ==
            \E c \in 1..Len(COLORS) :
               /\ COLORS[c] = color
               /\ \A d \in 1..Len(COLORS) :
                     ColorCount(hand, COLORS[d]) <= ColorCount(hand, color)
               /\ \A d \in 1..(c - 1) :
                     ColorCount(hand, COLORS[d]) < ColorCount(hand, color)
    IN  gameState.status = "PLAYING" =>
           /\ \A playerIndex \in 0..(Len(gameState.players) - 1), w \in Wittiness :
                 LET hand == gameState.players[playerIndex + 1].hand
                     move == FallbackMove(gameState, playerIndex, w)
                 IN  move.action = "play" =>
                        IF CardColor(hand[move.cardIndex[1] + 1]) = BLACK
                        THEN Most(hand, move.wildColor)
                        ELSE move.wildColor = NoColor
           /\ aiTurn.live =>
                 \A u \in handleAiDraw(aiTurn) :
                    LET before == aiTurn.gameState
                        top == Last(u.gameState.discardPile)
                        hand == PlayerAt(u.gameState, before.currentPlayerIndex).hand
                    IN  (top # Last(before.discardPile) /\ CardColor(top) = BLACK) =>
                           Most(hand, u.gameState.currentColor)

\* The computer played a wild-draw-four and the colour in force is the
\* colour of all the cards it keeps, which is not the first colour.
C31_Witness ==
    /\ gameMode = "AI"
    /\ gameState.status = "PLAYING"
    /\ CardType(Last(gameState.discardPile)) = "WILD_DRAW_FOUR"
    /\ gameState.currentColor = "BLUE"
    /\ gameState.players[2].hand # <<>>
    /\ \A k \in 1..Len(gameState.players[2].hand) :
          CardColor(gameState.players[2].hand[k]) = "BLUE"
    /\ Len(gameState.players[1].hand) > HandSize

\* C32: a click on a card of the shown hand that is rejected (the status is
\* not PLAYING, it is not the turn of the player at the screen, or the card
\* fails isValidMove) sets no state, leaves the pending wild card as it is
\* and sends no message.
C32_RejectedPlay ==
    gameState.players # <<>> =>
       LET hand == PlayerAt(gameState, HumanIndex).hand
       IN  \A index \in 0..(Len(hand) - 1) :
              LET card == hand[index + 1]
                  rejected ==
                      \/ gameState.status # "PLAYING"
                      \/ ~isMyTurn
                      \/ ~isValidMove(card, Last(gameState.discardPile),
                                      gameState.currentColor)
              IN  rejected =>
                     \A r \in handleHumanPlay(card, index) :
                        /\ r.pending = pendingWildCard
                        /\ ~r.u.set
                        /\ ~r.u.clearPending
                        /\ r.u.msgs = <<>>

\* The player at the screen is to move and holds a card that may not follow
\* the top card next to one that may.
C32_Witness ==
    /\ gameState.status = "PLAYING"
    /\ isMyTurn
    /\ pendingWildCard = NoCard
    /\ LET hand == PlayerAt(gameState, HumanIndex).hand
       IN  /\ \E i \in 1..Len(hand) :
                 ~isValidMove(hand[i], Last(gameState.discardPile), gameState.currentColor)
           /\ \E i \in 1..Len(hand) :
                 isValidMove(hand[i], Last(gameState.discardPile), gameState.currentColor)

\* C33: in every state with status PLAYING the index of the player to move
\* is at least 0 and less than the number of players, the direction is +1
\* or -1, and the discard pile is not empty.
C33_TurnPointerInRange ==
    gameState.status = "PLAYING" =>
       /\ gameState.currentPlayerIndex \in 0..(Len(gameState.players) - 1)
       /\ gameState.direction \in {1, -1}
       /\ gameState.discardPile # <<>>

\* Against the direction of the deal the turn went from the first of three
\* players to the last.
C33_Witness ==
    /\ gameState.status = "PLAYING"
    /\ Len(gameState.players) = MaxPlayers
    /\ gameState.direction = -1
    /\ gameState.currentPlayerIndex = MaxPlayers - 1
    /\ Len(gameState.players[1].hand) # HandSize

\* C34: in every state with status PLAYING whose top discard card is not
\* black the colour in force is the colour of that card; and the play of a
\* wild or wild-draw-four with a chosen colour sets the colour in force to
\* the chosen colour.
C34_ActiveColor ==
    /\ gameState.status = "PLAYING" =>
          LET top == Last(gameState.discardPile)
          IN  CardColor(top) # BLACK => gameState.currentColor = CardColor(top)
    /\ (gameState.status = "PLAYING" /\ pendingWildCard # NoCard) =>
          LET index == FindIndex(PlayerAt(gameState, HumanIndex).hand, pendingWildCard)
          IN  index # -1 =>
                 \A color \in PickColors :
                    \A u \in finalizeMove(Closure, pendingWildCard, index, color, gameState) :
                       u.set => u.gameState.currentColor = color

\* A card of another colour was played on a coloured card in a match
\* against the computer, and its colour is in force.
C34_Witness ==
    /\ gameMode = "AI"
    /\ gameState.status = "PLAYING"
    /\ Len(gameState.discardPile) >= 2
    /\ LET top == Last(gameState.discardPile)
           under == gameState.discardPile[Len(gameState.discardPile) - 1]
       IN  /\ CardColor(top) # BLACK
           /\ CardColor(under) # BLACK
           /\ CardColor(under) # CardColor(top)
           /\ gameState.currentColor = CardColor(top)

\* C35: in every state with status PLAYING no hand is empty; in every state
\* with status ROUND_OVER or GAME_OVER exactly one hand is empty and it is
\* the hand of the recorded round winner.
C35_RoundEndConsistent ==
    LET empty == {i \in 1..Len(gameState.players) : gameState.players[i].hand = <<>>}
    IN  /\ gameState.status = "PLAYING" => empty = {}
        /\ gameState.status \in {"ROUND_OVER", "GAME_OVER"} =>
              /\ Cardinality(empty) = 1
              /\ \A i \in empty : gameState.players[i].name = gameState.roundWinner

\* The computer played its last card: the round is over, its hand is the
\* empty one and it is the round winner.
C35_Witness ==
    /\ gameMode = "AI"
    /\ gameState.status = "ROUND_OVER"
    /\ gameState.players[2].hand = <<>>
    /\ gameState.players[1].hand # <<>>
    /\ gameState.roundWinner = gameState.players[2].name

\* C36: a wild card waits for its colour only while the status is PLAYING,
\* it is the turn of the player at the screen, and the card is in that
\* player's hand; so none waits once a play was finalized (the play that
\* ends the round included), nor after a round setup.
C36_PendingOnlyInTurn ==
    pendingWildCard # NoCard =>
       /\ gameState.status = "PLAYING"
       /\ isMyTurn
       /\ \E k \in 1..Len(PlayerAt(gameState, HumanIndex).hand) :
             PlayerAt(gameState, HumanIndex).hand[k] = pendingWildCard

\* The program with the timeout of the connection callback always firing
\* (setTimeout(..., 1000) at App.tsx:208).
SpecHostFair == Spec /\ WF_vars(HostStartTimeout)

\* C37: once the host accepted a connection it eventually deals a round and
\* hands its state-snapshot to the connection, unless the connection closes
\* first.
C37_HostDealsRound ==
    (isHost /\ listener.bound /\ startTimer)
       ~> \/ ~listener.bound
          \/ \E k \in 1..Len(sent) : sent[k].type = "STATE_UPDATE"

\* C38: the play that empties a hand does not apply the effect of the card:
\* no other hand and not the deck changes (not even for a draw-two or a
\* wild-draw-four), and the index of the player to move and the direction
\* keep their values, so that in a ROUND_OVER or GAME_OVER state the index
\* is that of the round winner.
C38_NoEffectOnLastCard ==
    [][RoundEnds =>
          LET playerIndex == gameState.currentPlayerIndex
          IN  /\ gameState'.currentPlayerIndex = playerIndex
              /\ gameState'.direction = gameState.direction
              /\ gameState'.deck = gameState.deck
              /\ gameState'.players[playerIndex + 1].hand = <<>>
              /\ gameState'.players[playerIndex + 1].name = gameState'.roundWinner
              /\ \A j \in 1..Len(gameState.players) :
                    j # playerIndex + 1 =>
                       gameState'.players[j].hand = gameState.players[j].hand]_vars

\* A round ended with a wild-draw-four as the last card played, and the
\* player to move is the round winner.
C38_Witness ==
    /\ gameState.status \in {"ROUND_OVER", "GAME_OVER"}
    /\ CardType(Last(gameState.discardPile)) = "WILD_DRAW_FOUR"
    /\ PlayerAt(gameState, gameState.currentPlayerIndex).name = gameState.roundWinner
    /\ PlayerAt(gameState, gameState.currentPlayerIndex).hand = <<>>

\* C39: in every state the colour in force is RED, BLUE, GREEN or YELLOW
\* and never the black of the wild cards, also when the start card of the
\* round is a wild and when a wild is played with no colour chosen.
C39_ActiveColorPlayable ==
    \E c \in 1..Len(COLORS) : gameState.currentColor = COLORS[c]

\* A round that starts on a wild card: the colour in force is the first
\* colour.
C39_Witness ==
    /\ gameState.status = "PLAYING"
    /\ gameState.discardPile = <<Selection[4]>>
    /\ CardType(gameState.discardPile[1]) = "WILD"
    /\ gameState.currentColor = COLORS[1]
    /\ pendingWildCard = NoCard

\* C40: in every state with status PLAYING or ROUND_OVER every player's
\* score is below the target score in force, whatever rounds were played and
\* however the target score was set.
C40_ScoresBelowTarget ==
    gameState.status \in {"PLAYING", "ROUND_OVER"} =>
       \A i \in 1..Len(gameState.players) :
          gameState.players[i].score < targetScore

=============================================================================
